---- MODULE Spec2Model ----
(***************************************************************************)
(* Model of the village simulation core: the pathfinding service with its  *)
(* route cache, and the GamePage tick loop with its replan scheduler.      *)
(*                                                                         *)
(* Optional values of the source (undefined) are modelled by sentinels:    *)
(* Undefined (-1) for an optional tick, NoTile ("") for an optional tile   *)
(* id, NoSignature (<<>>) for an optional prompt signature, NoIntent and   *)
(* NoExecution for an optional record.                                     *)
(***************************************************************************)
EXTENDS Integers, Sequences, FiniteSets, TLC

VARIABLES
  routeCache,        \* pathfinding: Map<string, path>, in insertion order, as a sequence of [key, path]
  maxCachedRoutes,   \* pathfinding: the maxCachedRoutes argument, a rational [num, den] or omitted
  lastCall,          \* observation: the last call of the function under check and what it returned
  useOrder,          \* observation: the found routes still cached, in the order of their last use
  tick,              \* GamePage state: the tick counter
  villagerRuntime,   \* GamePage state: one runtime record per villager, in registry order
  resourceInventory, \* GamePage state: the village's resources
  inflightReplans,   \* inflightReplansRef: villagers with a decision request in flight
  interactionCooldown,   \* interactionCooldownRef: villager pair -> tick of their last interaction
  completedActionTick,   \* completedActionTickRef: villager -> completedAtTick last applied
  hydrationFinished,     \* hydrationFinishedRef
  latestPersistedTick,   \* latestPersistedTickRef
  requests,          \* the decision requests that are not resolved yet, in the order of issue
  hydration,         \* "fetching" while the snapshot GET of the mount is not resolved, else "done"
  storedSnapshot,    \* the snapshot the server holds (NoSnapshot for none)
  rendered,          \* the tick and villagerRuntime of the last render, which the effects close over
  runtimeUpdated,    \* setVillagerRuntime has been called since the last render
  pendingEffects,    \* the dependencies that changed at the last render, its effects not yet run
  resets,            \* how many times the day has been reset
  timerTicks,        \* how many times the interval timer has fired
  windowResponses,   \* how many responses have arrived between a render and its effects
  initiatedThisTick, \* observation: decision requests initiated since the tick last changed
  lastCompletion,    \* observation: per villager, the request that completed since its last evaluation
  lastStep           \* observation: what the last step of the loop was

\***************************************************************************
\* Bounds of the model
\***************************************************************************

\* the largest route cache capacity the cache specification configures
MaxCapacity == 2

\***************************************************************************
\* Tiles (src/unnamed/part_000, src/src/domain/tiles.ts)
\***************************************************************************

Undefined == -1
NoTile == ""

\* VILLAGE_MAP_DIMENSIONS: the model's map is 3 x 2 tiles, the seed's is 12 x 10
VILLAGE_MAP_DIMENSIONS == [width |-> 3, height |-> 2]
MapWidth == VILLAGE_MAP_DIMENSIONS.width
MapHeight == VILLAGE_MAP_DIMENSIONS.height

TileIdOf(x, y) == "tile_" \o ToString(x) \o "_" \o ToString(y)

\* getTileType: one tree in the middle of the lower row, as the seed's default
\* for a coordinate listed nowhere is "tree"
getTileType(x, y) ==
  IF x = 0 /\ y = 0 THEN "home"
  ELSE IF x = 2 /\ y = 0 THEN "farm"
  ELSE IF x = 1 /\ y = 1 THEN "tree"
  ELSE "path"

isWalkable(type) == type # "water" /\ type # "tree"

\* VILLAGE_MAP_SEED: row by row, as Array.from(...).flat() builds it
VILLAGE_MAP_SEED ==
  [i \in 1..(MapWidth * MapHeight) |->
     LET x == (i - 1) % MapWidth
         y == (i - 1) \div MapWidth
     IN [id |-> TileIdOf(x, y), x |-> x, y |-> y,
         type |-> getTileType(x, y), walkable |-> isWalkable(getTileType(x, y))]]

\* a well-formed tile id that names no tile of the map
OffMapTileId == TileIdOf(MapWidth, 0)

MapTileIds == {VILLAGE_MAP_SEED[i].id : i \in DOMAIN VILLAGE_MAP_SEED}

Abs(n) == IF n < 0 THEN -n ELSE n

\* createNodesById: tile id -> node, neighbours in the order x+1, x-1, y+1, y-1,
\* those that are no tile of the map filtered out
TileAt(tiles, x, y) ==
  LET at == {i \in DOMAIN tiles : tiles[i].x = x /\ tiles[i].y = y}
  IN IF at = {} THEN <<>>
     ELSE <<tiles[CHOOSE i \in at : \A j \in at : j <= i].id>>

createNodesById(tiles) ==
  [id \in {tiles[i].id : i \in DOMAIN tiles} |->
     LET t == CHOOSE t \in {tiles[i] : i \in DOMAIN tiles} : t.id = id
     IN [id |-> id, x |-> t.x, y |-> t.y, walkable |-> t.walkable,
         neighbors |-> TileAt(tiles, t.x + 1, t.y) \o TileAt(tiles, t.x - 1, t.y)
                       \o TileAt(tiles, t.x, t.y + 1) \o TileAt(tiles, t.x, t.y - 1)]]

\* the node map of the pathfinding service of the page, built once
nodesById == createNodesById(VILLAGE_MAP_SEED)

heuristicDistanceInadmissible(nodes, fromId, toId) ==
  3 * Abs(nodes[fromId].y - nodes[toId].y)

heuristicDistance(nodes, fromId, toId) ==
  Abs(nodes[fromId].x - nodes[toId].x) + Abs(nodes[fromId].y - nodes[toId].y)

\***************************************************************************
\* BinaryMinHeap (src/unnamed/part_006): a sequence of [id, score]; the
\* source's 0-based index i is position i + 1 of the sequence
\***************************************************************************

HeapSwap(heap, i, j) == [heap EXCEPT ![i + 1] = heap[j + 1], ![j + 1] = heap[i + 1]]

RECURSIVE bubbleUp(_, _)
bubbleUp(heap, index) ==
  IF index <= 0 THEN heap
  ELSE LET parentIndex == (index - 1) \div 2
       IN IF heap[parentIndex + 1].score <= heap[index + 1].score THEN heap
          ELSE bubbleUp(HeapSwap(heap, parentIndex, index), parentIndex)

RECURSIVE sinkDown(_, _)
sinkDown(heap, index) ==
  LET length == Len(heap)
      left == 2 * index + 1
      right == 2 * index + 2
      s1 == IF left < length /\ heap[left + 1].score < heap[index + 1].score
            THEN left ELSE index
      smallest == IF right < length /\ heap[right + 1].score < heap[s1 + 1].score
                  THEN right ELSE s1
  IN IF smallest = index THEN heap
     ELSE sinkDown(HeapSwap(heap, smallest, index), smallest)

heapPush(heap, id, score) ==
  bubbleUp(Append(heap, [id |-> id, score |-> score]), Len(heap))

\* pop of a non-empty heap: the id on top and the heap that is left
heapPop(heap) ==
  LET top == heap[1]
      last == heap[Len(heap)]
      rest == SubSeq(heap, 1, Len(heap) - 1)
  IN [id |-> top.id,
      heap |-> IF Len(rest) > 0 THEN sinkDown([rest EXCEPT ![1] = last], 0) ELSE rest]

\***************************************************************************
\* findShortestPath (src/unnamed/part_006): A* with the Manhattan heuristic.
\* cameFrom and gScore are functions on the map's tile ids, NoTile and
\* Undefined standing for an absent entry.
\***************************************************************************

RECURSIVE reconstructPath(_, _)
reconstructPath(cameFrom, current) ==
  IF cameFrom[current] = NoTile THEN <<current>>
  ELSE Append(reconstructPath(cameFrom, cameFrom[current]), current)

\* the for loop over currentNode.neighbors, from position i on
RECURSIVE RelaxNeighbors(_, _, _, _, _, _, _)
RelaxNeighbors(nodes, search, current, neighbors, i, destinationTileId, blockedTileIds) ==
  IF i > Len(neighbors) THEN search
  ELSE LET neighborId == neighbors[i]
           tentativeScore == search.gScore[current] + 1
           skip == \/ neighborId \in search.closedSet
                   \/ neighborId \in blockedTileIds
                   \/ ~nodes[neighborId].walkable
                   \/ /\ search.gScore[neighborId] # Undefined
                      /\ tentativeScore >= search.gScore[neighborId]
           next == IF skip THEN search
                   ELSE [search EXCEPT
                           !.cameFrom[neighborId] = current,
                           !.gScore[neighborId] = tentativeScore,
                           !.heap = heapPush(search.heap, neighborId,
                                      tentativeScore + heuristicDistance(nodes, neighborId, destinationTileId))]
       IN RelaxNeighbors(nodes, next, current, neighbors, i + 1, destinationTileId, blockedTileIds)

\* the while loop: <<>> stands for the undefined the source returns
RECURSIVE SearchLoop(_, _, _, _)
SearchLoop(nodes, search, destinationTileId, blockedTileIds) ==
  IF Len(search.heap) = 0 THEN <<>>
  ELSE LET popped == heapPop(search.heap)
           current == popped.id
           s1 == [search EXCEPT !.heap = popped.heap]
       IN IF current = destinationTileId THEN reconstructPath(search.cameFrom, current)
          ELSE IF current \in search.closedSet
               THEN SearchLoop(nodes, s1, destinationTileId, blockedTileIds)
               ELSE SearchLoop(
                      nodes,
                      RelaxNeighbors(nodes, [s1 EXCEPT !.closedSet = @ \cup {current}], current,
                                     nodes[current].neighbors, 1, destinationTileId, blockedTileIds),
                      destinationTileId, blockedTileIds)

findShortestPath(nodes, startTileId, destinationTileId, blockedTileIds) ==
  SearchLoop(nodes,
             [closedSet |-> {},
              cameFrom |-> [id \in DOMAIN nodes |-> NoTile],
              gScore |-> [id \in DOMAIN nodes |-> IF id = startTileId THEN 0 ELSE Undefined],
              heap |-> heapPush(<<>>, startTileId,
                                heuristicDistance(nodes, startTileId, destinationTileId))],
             destinationTileId, blockedTileIds)

\***************************************************************************
\* createPathfindingService / findPath (src/unnamed/part_006)
\***************************************************************************

DefaultMaxCachedRoutes == 256

\* the maxCachedRoutes argument: a rational num/den, or omitted
Capacity(num, den) == [given |-> TRUE, num |-> num, den |-> den]
NoCapacity == [given |-> FALSE, num |-> 0, den |-> 1]

\* the parameter default (maxCachedRoutes = 256), then
\* Number.isInteger(maxCachedRoutes) && maxCachedRoutes > 0 ? maxCachedRoutes : 1
normalizedMaxCachedRoutes(capacity) ==
  LET c == IF capacity.given THEN capacity ELSE Capacity(DefaultMaxCachedRoutes, 1)
  IN IF c.num % c.den = 0 /\ c.num > 0 THEN c.num \div c.den ELSE 1

\* parseTileIdCoordinate: the coordinate a tile id is formatted from
parseTileIdCoordinate(tileId) ==
  CHOOSE c \in [x : 0..MapWidth, y : 0..MapHeight] : TileIdOf(c.x, c.y) = tileId

\* left.localeCompare(right) < 0 on tile ids with one-digit coordinates
TileIdBefore(left, right) ==
  LET l == parseTileIdCoordinate(left)
      r == parseTileIdCoordinate(right)
  IN l.x < r.x \/ (l.x = r.x /\ l.y < r.y)

\* [...blockedTileIds].sort(localeCompare)
RECURSIVE SortTileIds(_)
SortTileIds(ids) ==
  IF ids = {} THEN <<>>
  ELSE LET first == CHOOSE a \in ids : \A b \in ids \ {a} : TileIdBefore(a, b)
       IN <<first>> \o SortTileIds(ids \ {first})

\* Array.prototype.join(",")
RECURSIVE JoinComma(_)
JoinComma(seq) ==
  IF Len(seq) = 0 THEN ""
  ELSE IF Len(seq) = 1 THEN seq[1]
  ELSE seq[1] \o "," \o JoinComma(Tail(seq))

toCacheKeyUnsorted(startTileId, destinationTileId, blockedTileIds) ==
  startTileId \o "->" \o destinationTileId \o "|" \o JoinComma(blockedTileIds)

\* blockedTileIds is the request's array; new Set(...) of it is its range
toCacheKey(startTileId, destinationTileId, blockedTileIds) ==
  LET blocked == {blockedTileIds[i] : i \in DOMAIN blockedTileIds}
  IN startTileId \o "->" \o destinationTileId \o "|" \o JoinComma(SortTileIds(blocked))

CacheKeys(cache) == {cache[i].key : i \in DOMAIN cache}

CacheIndex(cache, key) == CHOOSE i \in DOMAIN cache : cache[i].key = key

RemoveAt(seq, i) == SubSeq(seq, 1, i - 1) \o SubSeq(seq, i + 1, Len(seq))

Unreachable(reason) ==
  [status |-> "unreachable", reason |-> reason, path |-> <<>>, fromCache |-> FALSE]

FoundFromCache(path, fromCache) ==
  [status |-> "found", reason |-> "", path |-> path, fromCache |-> TRUE]

Found(path, fromCache) ==
  [status |-> "found", reason |-> "", path |-> path, fromCache |-> fromCache]

CacheHitNoRefresh(cache, key) == cache

\* routeCache.delete(cacheKey); routeCache.set(cacheKey, cachedPath)
CacheHit(cache, key) ==
  LET i == CacheIndex(cache, key)
  IN Append(RemoveAt(cache, i), cache[i])

CacheInsertNoEvict(cache, key, path, capacity) ==
  Append(cache, [key |-> key, path |-> path])

\* routeCache.set(cacheKey, path), then the oldest key goes when the size
\* exceeds the normalized capacity
CacheInsert(cache, key, path, capacity) ==
  LET added == Append(cache, [key |-> key, path |-> path])
  IN IF Len(added) > normalizedMaxCachedRoutes(capacity) THEN Tail(added) ELSE added

\* findPath of a service built on the node map nodes: the result and the
\* route cache after the call
findPathOn(nodes, cache, capacity, request) ==
  LET startTileId == request.startTileId
      destinationTileId == request.destinationTileId
      blocked == {request.blockedTileIds[i] : i \in DOMAIN request.blockedTileIds}
      cacheKey == toCacheKey(startTileId, destinationTileId, request.blockedTileIds)
      path == findShortestPath(nodes, startTileId, destinationTileId, blocked)
  IN IF startTileId \notin DOMAIN nodes
     THEN [result |-> Unreachable("unknown-start"), cache |-> cache]
     ELSE IF destinationTileId \notin DOMAIN nodes
     THEN [result |-> Unreachable("unknown-destination"), cache |-> cache]
     ELSE IF startTileId \in blocked \/ ~nodes[startTileId].walkable
     THEN [result |-> Unreachable("blocked-start"), cache |-> cache]
     ELSE IF destinationTileId \in blocked \/ ~nodes[destinationTileId].walkable
     THEN [result |-> Unreachable("blocked-destination"), cache |-> cache]
     ELSE IF startTileId = destinationTileId
     THEN [result |-> Found(<<startTileId>>, FALSE), cache |-> cache]
     ELSE IF cacheKey \in CacheKeys(cache)
     THEN [result |-> Found(cache[CacheIndex(cache, cacheKey)].path, TRUE),
           cache |-> CacheHit(cache, cacheKey)]
     ELSE IF path = <<>>
     THEN [result |-> Unreachable("no-route"), cache |-> cache]
     ELSE [result |-> Found(path, FALSE),
           cache |-> CacheInsert(cache, cacheKey, path, capacity)]

\* findPath of the pathfinding service of the page
findPath(cache, capacity, request) == findPathOn(nodesById, cache, capacity, request)

\***************************************************************************
\* findShortestPath of src/unnamed/part_005: A* with the open set kept as a
\* Set, a sequence in insertion order, and the lowest fScore picked by a scan
\***************************************************************************

\* pickLowestScore from position i on: the first tile of the strictly lowest
\* score; bestId is NoTile while bestScore is Infinity
RECURSIVE PickFrom(_, _, _, _)
PickFrom(openSet, fScore, i, bestId) ==
  IF i > Len(openSet) THEN bestId
  ELSE IF bestId = NoTile \/ fScore[openSet[i]] < fScore[bestId]
  THEN PickFrom(openSet, fScore, i + 1, openSet[i])
  ELSE PickFrom(openSet, fScore, i + 1, bestId)

pickLowestScore(openSet, fScore) == PickFrom(openSet, fScore, 1, NoTile)

\* Set.add: a new element goes to the end, a present one keeps its place
SetAdd(set, element) ==
  IF \E i \in DOMAIN set : set[i] = element THEN set ELSE Append(set, element)

\* Set.delete
SetDelete(set, element) == SelectSeq(set, LAMBDA e : e # element)

\* the for loop over currentNode.neighbors, from position i on
RECURSIVE RelaxNeighborsOpenSet(_, _, _, _, _, _, _)
RelaxNeighborsOpenSet(nodes, search, current, neighbors, i, destinationTileId, blockedTileIds) ==
  IF i > Len(neighbors) THEN search
  ELSE LET neighborId == neighbors[i]
           tentativeScore == search.gScore[current] + 1
           skip == \/ neighborId \in search.closedSet
                   \/ neighborId \in blockedTileIds
                   \/ ~nodes[neighborId].walkable
                   \/ /\ search.gScore[neighborId] # Undefined
                      /\ tentativeScore >= search.gScore[neighborId]
           next == IF skip THEN search
                   ELSE [search EXCEPT
                           !.cameFrom[neighborId] = current,
                           !.gScore[neighborId] = tentativeScore,
                           !.fScore[neighborId] =
                              tentativeScore + heuristicDistance(nodes, neighborId, destinationTileId),
                           !.openSet = SetAdd(@, neighborId)]
       IN RelaxNeighborsOpenSet(nodes, next, current, neighbors, i + 1,
                                destinationTileId, blockedTileIds)

\* the while loop once the lowest tile is picked
RECURSIVE SearchLoopOpenSet(_, _, _, _)
SearchFromPicked(nodes, search, current, destinationTileId, blockedTileIds) ==
  IF current = NoTile THEN <<>>
  ELSE IF current = destinationTileId THEN reconstructPath(search.cameFrom, current)
  ELSE SearchLoopOpenSet(
         nodes,
         RelaxNeighborsOpenSet(nodes,
                               [search EXCEPT !.openSet = SetDelete(@, current),
                                              !.closedSet = @ \cup {current}],
                               current, nodes[current].neighbors, 1,
                               destinationTileId, blockedTileIds),
         destinationTileId, blockedTileIds)

\* the while loop: <<>> stands for the undefined the source returns
SearchLoopOpenSet(nodes, search, destinationTileId, blockedTileIds) ==
  IF Len(search.openSet) = 0 THEN <<>>
  ELSE SearchFromPicked(nodes, search, pickLowestScore(search.openSet, search.fScore),
                        destinationTileId, blockedTileIds)

findShortestPathOpenSet(nodes, startTileId, destinationTileId, blockedTileIds) ==
  SearchLoopOpenSet(
    nodes,
    [openSet |-> <<startTileId>>,
     closedSet |-> {},
     cameFrom |-> [id \in DOMAIN nodes |-> NoTile],
     gScore |-> [id \in DOMAIN nodes |-> IF id = startTileId THEN 0 ELSE Undefined],
     fScore |-> [id \in DOMAIN nodes |->
                   IF id = startTileId
                   THEN heuristicDistance(nodes, startTileId, destinationTileId)
                   ELSE Undefined]],
    destinationTileId, blockedTileIds)

\***************************************************************************
\* Villagers (src/src/domain/tiles.ts, VILLAGER_REGISTRY): the model's
\* registry has two villagers on the model's map
\***************************************************************************

NoSignature == <<>>
NoIntent == [action |-> "", targetTileId |-> NoTile, reasoning |-> "", plannedAtTick |-> Undefined]
NoExecution ==
  [action |-> "", taskSignature |-> <<>>, startedAtTick |-> Undefined,
   completesAtTick |-> Undefined, completedAtTick |-> Undefined]

VILLAGER_ACTIONS == {"walk", "farm", "chat", "shop", "rest", "observe"}

VILLAGER_REGISTRY ==
  << [id |-> "villager_ava", name |-> "Ava", homeTileId |-> "tile_0_0",
      spawnTileId |-> "tile_0_0", role |-> "farmer",
      baseSchedule |-> << [hour |-> 12, action |-> "farm", targetTileId |-> "tile_2_0"],
                          [hour |-> 0, action |-> "chat", targetTileId |-> "tile_0_0"] >>],
     [id |-> "villager_ben", name |-> "Ben", homeTileId |-> "tile_2_0",
      spawnTileId |-> "tile_1_0", role |-> "merchant",
      baseSchedule |-> << [hour |-> 1, action |-> "walk", targetTileId |-> "tile_2_1"],
                          [hour |-> 19, action |-> "rest", targetTileId |-> "tile_2_0"] >>] >>

listVillagers == VILLAGER_REGISTRY

VillagerIndexes == DOMAIN VILLAGER_REGISTRY

VillagerIds == {VILLAGER_REGISTRY[i].id : i \in VillagerIndexes}

\***************************************************************************
\* Simulation time (src/unnamed/part_006, toSimulationTime)
\***************************************************************************

DAY_LENGTH_TICKS == 240
MINUTES_PER_DAY == 1440
MINUTES_PER_HOUR == 60

Min(a, b) == IF a < b THEN a ELSE b
Max(a, b) == IF a > b THEN a ELSE b

toSimulationTime(atTick, dayLengthTicks) ==
  [tick |-> atTick,
   day |-> (atTick \div dayLengthTicks) + 1,
   minuteOfDay |-> Min(MINUTES_PER_DAY - 1,
                       ((atTick % dayLengthTicks) * MINUTES_PER_DAY) \div dayLengthTicks)]

\***************************************************************************
\* Schedule index (src/src/simulation/schedule.ts)
\***************************************************************************

\* Array.prototype.sort by startMinute (stable): insertion into a sorted prefix
RECURSIVE SortByStartMinute(_)
SortByStartMinute(entries) ==
  IF Len(entries) <= 1 THEN entries
  ELSE LET sorted == SortByStartMinute(SubSeq(entries, 1, Len(entries) - 1))
           e == entries[Len(entries)]
           before == SelectSeq(sorted, LAMBDA x : x.startMinute <= e.startMinute)
           after == SelectSeq(sorted, LAMBDA x : x.startMinute > e.startMinute)
       IN before \o <<e>> \o after

\* normalizeHourToMinute throws for an hour outside 0..23 (hours are integers
\* here)
normalizeHourToMinuteThrows(hour) ==
  hour < 0 \/ hour >= MINUTES_PER_DAY \div MINUTES_PER_HOUR

\* createVillagerDailySchedule throws: for an hour that does not normalize, or
\* for two slots of the same hour (neighbours once sorted)
createVillagerDailyScheduleThrows(villager) ==
  \/ \E i \in DOMAIN villager.baseSchedule :
       normalizeHourToMinuteThrows(villager.baseSchedule[i].hour)
  \/ \E i, j \in DOMAIN villager.baseSchedule :
       i # j /\ villager.baseSchedule[i].hour = villager.baseSchedule[j].hour

\* createVillagerDailySchedule, when it does not throw (the registry's hours
\* are distinct integers of 0..23)
createVillagerDailySchedule(villager) ==
  [villagerId |-> villager.id,
   entries |-> SortByStartMinute(
     [i \in DOMAIN villager.baseSchedule |->
        [startMinute |-> villager.baseSchedule[i].hour * MINUTES_PER_HOUR,
         action |-> villager.baseSchedule[i].action,
         targetTileId |-> villager.baseSchedule[i].targetTileId]])]

\* the binary search of resolveActiveVillagerTask; 0-based low and high, the
\* index of the active entry (0 for none) carried along
RECURSIVE ScheduleSearch(_, _, _, _, _)
ScheduleSearch(entries, minuteOfDay, low, high, active) ==
  IF low > high THEN active
  ELSE LET mid == (low + high) \div 2
       IN IF entries[mid + 1].startMinute <= minuteOfDay
          THEN ScheduleSearch(entries, minuteOfDay, mid + 1, high, mid + 1)
          ELSE ScheduleSearch(entries, minuteOfDay, low, mid - 1, active)

\* a search that leaves the last entry out
resolveActiveVillagerTaskSkipsLast(schedule, time) ==
  LET active == ScheduleSearch(schedule.entries, time.minuteOfDay, 0, Len(schedule.entries) - 2, 0)
  IN IF active = 0
     THEN [villagerId |-> schedule.villagerId, action |-> "observe",
           targetTileId |-> NoTile, source |-> "idle"]
     ELSE [villagerId |-> schedule.villagerId, action |-> schedule.entries[active].action,
           targetTileId |-> schedule.entries[active].targetTileId, source |-> "schedule"]

resolveActiveVillagerTask(schedule, time) ==
  LET active == ScheduleSearch(schedule.entries, time.minuteOfDay, 0, Len(schedule.entries) - 1, 0)
  IN IF active = 0
     THEN [villagerId |-> schedule.villagerId, action |-> "observe",
           targetTileId |-> NoTile, source |-> "idle"]
     ELSE [villagerId |-> schedule.villagerId, action |-> schedule.entries[active].action,
           targetTileId |-> schedule.entries[active].targetTileId, source |-> "schedule"]

\* buildVillagerDailyScheduleIndex, by the villager's position in the registry
scheduleIndex == [i \in VillagerIndexes |-> createVillagerDailySchedule(VILLAGER_REGISTRY[i])]

\***************************************************************************
\* Movement component (src/src/simulation/movement.ts)
\***************************************************************************

createVillagerMovementComponent(startTileId, initialTick) ==
  [currentTileId |-> startTileId, path |-> <<startTileId>>, pathIndex |-> 0,
   lastProcessedTick |-> initialTick, arrivedAtTick |-> initialTick]

assignVillagerMovementPathKeepsTile(component, path, atTick) ==
  [currentTileId |-> component.currentTileId, path |-> path, pathIndex |-> 0,
   lastProcessedTick |-> atTick,
   arrivedAtTick |-> IF Len(path) = 1 THEN atTick ELSE Undefined]

\* path is non-empty wherever the planner calls it (a found path)
assignVillagerMovementPath(component, path, atTick) ==
  [currentTileId |-> path[1], path |-> path, pathIndex |-> 0,
   lastProcessedTick |-> atTick,
   arrivedAtTick |-> IF Len(path) = 1 THEN atTick ELSE Undefined]

\* value is a non-negative integer (the model's ticks are integers)
assertNonNegativeInteger(value) == value >= 0

\* an advance whose no-op branch stamps the tick of the call
advanceVillagerMovementStampsTick(component, atTick) ==
  IF atTick <= component.lastProcessedTick \/ Len(component.path) <= 1
  THEN [component |-> [component EXCEPT !.lastProcessedTick = atTick], events |-> <<>>]
  ELSE LET tickDelta == atTick - component.lastProcessedTick
           nextPathIndex == Min(Len(component.path) - 1, component.pathIndex + tickDelta)
           nextCurrentTileId == component.path[nextPathIndex + 1]
           reachedDestination == nextPathIndex = Len(component.path) - 1
           distanceToDestination == Len(component.path) - 1 - component.pathIndex
           arrivalTick == IF reachedDestination /\ component.arrivedAtTick = Undefined
                          THEN component.lastProcessedTick + distanceToDestination
                          ELSE component.arrivedAtTick
           nextComponent == [component EXCEPT !.currentTileId = nextCurrentTileId,
                                              !.pathIndex = nextPathIndex,
                                              !.lastProcessedTick = atTick,
                                              !.arrivedAtTick = arrivalTick]
       IN IF ~reachedDestination \/ arrivalTick = Undefined \/ component.arrivedAtTick # Undefined
          THEN [component |-> nextComponent, events |-> <<>>]
          ELSE [component |-> nextComponent,
                events |-> << [tileId |-> nextCurrentTileId, tick |-> arrivalTick] >>]

advanceVillagerMovementEveryArrival(component, atTick) ==
  IF atTick <= component.lastProcessedTick \/ Len(component.path) <= 1
  THEN [component |-> [component EXCEPT !.lastProcessedTick = Max(component.lastProcessedTick, atTick)],
        events |-> <<>>]
  ELSE LET nextPathIndex == Min(Len(component.path) - 1,
                                component.pathIndex + atTick - component.lastProcessedTick)
           arrivalTick == IF nextPathIndex = Len(component.path) - 1
                          THEN component.lastProcessedTick + Len(component.path) - 1 - component.pathIndex
                          ELSE component.arrivedAtTick
           nextComponent == [component EXCEPT !.currentTileId = component.path[nextPathIndex + 1],
                                              !.pathIndex = nextPathIndex,
                                              !.lastProcessedTick = atTick,
                                              !.arrivedAtTick = arrivalTick]
       IN IF nextPathIndex # Len(component.path) - 1
          THEN [component |-> nextComponent, events |-> <<>>]
          ELSE [component |-> nextComponent,
                events |-> << [tileId |-> component.path[nextPathIndex + 1], tick |-> arrivalTick] >>]

advanceVillagerMovementOneStep(component, atTick) ==
  IF atTick <= component.lastProcessedTick \/ Len(component.path) <= 1
  THEN [component |-> [component EXCEPT !.lastProcessedTick = Max(component.lastProcessedTick, atTick)],
        events |-> <<>>]
  ELSE LET nextPathIndex == Min(Len(component.path) - 1, component.pathIndex + 1)
           reachedDestination == nextPathIndex = Len(component.path) - 1
           arrivalTick == IF reachedDestination /\ component.arrivedAtTick = Undefined
                          THEN component.lastProcessedTick + Len(component.path) - 1 - component.pathIndex
                          ELSE component.arrivedAtTick
           nextComponent == [component EXCEPT !.currentTileId = component.path[nextPathIndex + 1],
                                              !.pathIndex = nextPathIndex,
                                              !.lastProcessedTick = atTick,
                                              !.arrivedAtTick = arrivalTick]
       IN IF ~reachedDestination \/ component.arrivedAtTick # Undefined
          THEN [component |-> nextComponent, events |-> <<>>]
          ELSE [component |-> nextComponent,
                events |-> << [tileId |-> component.path[nextPathIndex + 1], tick |-> arrivalTick] >>]

\* the component and the arrival events ([tileId, tick]) of one advance
advanceVillagerMovement(component, atTick) ==
  IF atTick <= component.lastProcessedTick \/ Len(component.path) <= 1
  THEN [component |-> [component EXCEPT !.lastProcessedTick = Max(component.lastProcessedTick, atTick)],
        events |-> <<>>]
  ELSE LET tickDelta == atTick - component.lastProcessedTick
           nextPathIndex == Min(Len(component.path) - 1, component.pathIndex + tickDelta)
           nextCurrentTileId == component.path[nextPathIndex + 1]
           reachedDestination == nextPathIndex = Len(component.path) - 1
           distanceToDestination == Len(component.path) - 1 - component.pathIndex
           arrivalTick == IF reachedDestination /\ component.arrivedAtTick = Undefined
                          THEN component.lastProcessedTick + distanceToDestination
                          ELSE component.arrivedAtTick
           nextComponent == [component EXCEPT !.currentTileId = nextCurrentTileId,
                                              !.pathIndex = nextPathIndex,
                                              !.lastProcessedTick = atTick,
                                              !.arrivedAtTick = arrivalTick]
       IN IF ~reachedDestination \/ arrivalTick = Undefined \/ component.arrivedAtTick # Undefined
          THEN [component |-> nextComponent, events |-> <<>>]
          ELSE [component |-> nextComponent,
                events |-> << [tileId |-> nextCurrentTileId, tick |-> arrivalTick] >>]

\***************************************************************************
\* Planner (src/src/simulation/planning.ts)
\***************************************************************************

\* a resolution that falls back for the rest action too
resolveTaskTargetTileRestFallsBack(villager, task, fallbackTileId) ==
  IF task.targetTileId # NoTile THEN task.targetTileId
  ELSE fallbackTileId

resolveTaskTargetTile(villager, task, fallbackTileId) ==
  IF task.targetTileId # NoTile THEN task.targetTileId
  ELSE IF task.action = "rest" THEN villager.homeTileId
  ELSE fallbackTileId

\* the rest of planVillagerMovementIntent once findPath has answered:
\* pathfindingResult is the answer and the route cache after the call
planWithPathfindingResult(targetTileId, movement, pathfindingResult, atTick) ==
  IF pathfindingResult.result.status # "found"
  THEN [targetTileId |-> targetTileId, requestedPath |-> TRUE, movement |-> movement,
        npcState |-> "planning", cache |-> pathfindingResult.cache]
  ELSE LET assigned == assignVillagerMovementPath(movement, pathfindingResult.result.path, atTick)
       IN [targetTileId |-> targetTileId, requestedPath |-> TRUE, movement |-> assigned,
           npcState |-> IF Len(assigned.path) > 1 THEN "moving" ELSE "acting",
           cache |-> pathfindingResult.cache]

\* a planner that requests a path on every pass
planVillagerMovementIntentAlwaysRequests(villager, movement, activeTask, cache, capacity, atTick, previousTargetTileId) ==
  planWithPathfindingResult(
    resolveTaskTargetTile(villager, activeTask, movement.currentTileId), movement,
    findPath(cache, capacity,
             [startTileId |-> movement.currentTileId,
              destinationTileId |-> resolveTaskTargetTile(villager, activeTask,
                                                          movement.currentTileId),
              blockedTileIds |-> <<>>]),
    atTick)

\* planVillagerMovementIntent, with the route cache the pathfinding service
\* holds passed in and out; blockedTileIds is never given by the tick loop
planVillagerMovementIntent(villager, movement, activeTask, cache, capacity, atTick, previousTargetTileId) ==
  LET targetTileId == resolveTaskTargetTile(villager, activeTask, movement.currentTileId)
      hasPathToTarget == movement.path[Len(movement.path)] = targetTileId
      targetChanged == previousTargetTileId # targetTileId
      requestedPath == targetChanged \/ ~hasPathToTarget
  IN IF ~requestedPath
     THEN [targetTileId |-> targetTileId, requestedPath |-> FALSE, movement |-> movement,
           npcState |-> IF movement.currentTileId = targetTileId THEN "acting" ELSE "moving",
           cache |-> cache]
     ELSE planWithPathfindingResult(
            targetTileId, movement,
            findPath(cache, capacity,
                     [startTileId |-> movement.currentTileId,
                      destinationTileId |-> targetTileId,
                      blockedTileIds |-> <<>>]),
            atTick)

\***************************************************************************
\* Action execution (src/unnamed/part_005)
\***************************************************************************

ACTION_DURATION_TICKS ==
  [a \in VILLAGER_ACTIONS |->
     CASE a = "farm" -> 6 [] a = "chat" -> 4 [] a = "shop" -> 5 [] a = "rest" -> 8 [] OTHER -> 0]

createVillagerTaskSignature(task) ==
  <<task.action, IF task.targetTileId = NoTile THEN "none" ELSE task.targetTileId, task.source>>

beginVillagerActionExecutionAlways(task, atTick, taskSignature) ==
  [action |-> task.action, taskSignature |-> taskSignature, startedAtTick |-> atTick,
   completesAtTick |-> atTick + ACTION_DURATION_TICKS[task.action],
   completedAtTick |-> Undefined]

beginVillagerActionExecution(task, atTick, taskSignature) ==
  IF ACTION_DURATION_TICKS[task.action] <= 0 THEN NoExecution
  ELSE [action |-> task.action, taskSignature |-> taskSignature, startedAtTick |-> atTick,
        completesAtTick |-> atTick + ACTION_DURATION_TICKS[task.action],
        completedAtTick |-> Undefined]

advanceVillagerActionExecutionRestamps(execution, atTick) ==
  IF atTick < execution.completesAtTick
  THEN [execution |-> execution, completed |-> FALSE,
        npcState |-> IF execution.action = "rest" THEN "resting" ELSE "acting"]
  ELSE [execution |-> [execution EXCEPT !.completedAtTick = atTick], completed |-> TRUE,
        npcState |-> "planning"]

advanceVillagerActionExecution(execution, atTick) ==
  IF execution.completedAtTick # Undefined \/ atTick < execution.completesAtTick
  THEN [execution |-> execution, completed |-> FALSE,
        npcState |-> IF execution.action = "rest" THEN "resting" ELSE "acting"]
  ELSE [execution |-> [execution EXCEPT !.completedAtTick = atTick], completed |-> TRUE,
        npcState |-> "planning"]

shouldStartVillagerActionExecution(execution, taskSignature) ==
  execution = NoExecution \/ execution.taskSignature # taskSignature

\***************************************************************************
\* Context assembler (src/unnamed/part_004).  A memory's importance is kept
\* in thousandths (0.55 is 550).
\***************************************************************************

DEFAULT_MEMORY_TOKEN_BUDGET == 180

\* Math.max(1, Math.ceil(length / 4)), length the length of the trimmed
\* summary; the loop's summaries have no white space at either end
estimateTokenCost(length) == IF length = 0 THEN 1 ELSE Max(1, (length + 3) \div 4)

\* the comparator of rankMemoriesByPriority: left sorts before right
RanksBefore(left, right) ==
  IF left.importance # right.importance THEN left.importance > right.importance
  ELSE left.createdAt.tick > right.createdAt.tick

\* [...shortTerm, ...longTerm].sort(comparator); the sort is stable
RECURSIVE SortMemories(_)
SortMemories(memories) ==
  IF Len(memories) <= 1 THEN memories
  ELSE LET sorted == SortMemories(SubSeq(memories, 1, Len(memories) - 1))
           m == memories[Len(memories)]
           before == SelectSeq(sorted, LAMBDA x : ~RanksBefore(m, x))
           after == SelectSeq(sorted, LAMBDA x : RanksBefore(m, x))
       IN before \o <<m>> \o after

rankMemoriesByPriority(memoryStore) == SortMemories(memoryStore.shortTerm \o memoryStore.longTerm)

\* a loop that stops at an entry that alone exceeds the budget
RECURSIVE SummarizeFromStopsAtOversized(_, _, _, _, _)
SummarizeFromStopsAtOversized(memories, i, memoryTokenBudget, consumedBudget, summary) ==
  IF i > Len(memories) THEN summary
  ELSE LET entryCost == estimateTokenCost(Len(memories[i].summary))
       IN IF consumedBudget + entryCost > memoryTokenBudget THEN summary
          ELSE SummarizeFromStopsAtOversized(memories, i + 1, memoryTokenBudget,
                                             consumedBudget + entryCost,
                                             Append(summary, [id |-> memories[i].id,
                                                              type |-> memories[i].type,
                                                              importance |-> memories[i].importance,
                                                              createdAtTick |-> memories[i].createdAt.tick]))

\* the loop of summarizeTopMemories from position i on
RECURSIVE SummarizeFrom(_, _, _, _, _)
SummarizeFrom(memories, i, memoryTokenBudget, consumedBudget, summary) ==
  IF i > Len(memories) THEN summary
  ELSE LET entryCost == estimateTokenCost(Len(memories[i].summary))
       IN IF entryCost > memoryTokenBudget
          THEN SummarizeFrom(memories, i + 1, memoryTokenBudget, consumedBudget, summary)
          ELSE IF consumedBudget + entryCost > memoryTokenBudget THEN summary
          ELSE SummarizeFrom(memories, i + 1, memoryTokenBudget, consumedBudget + entryCost,
                             Append(summary, [id |-> memories[i].id,
                                              type |-> memories[i].type,
                                              importance |-> memories[i].importance,
                                              createdAtTick |-> memories[i].createdAt.tick]))

summarizeTopMemories(memories, memoryTokenBudget) ==
  SummarizeFrom(memories, 1, memoryTokenBudget, 0, <<>>)

assembleNpcPromptInput(villager, activeTask, memoryStore, currentTileId, targetTileId, time) ==
  [villagerId |-> villager.id,
   role |-> villager.role,
   location |-> [currentTileId |-> currentTileId, targetTileId |-> targetTileId],
   currentGoal |-> [action |-> activeTask.action, source |-> activeTask.source,
                    targetTileId |-> IF activeTask.targetTileId # NoTile
                                     THEN activeTask.targetTileId ELSE targetTileId],
   memorySummary |-> summarizeTopMemories(rankMemoriesByPriority(memoryStore),
                                           DEFAULT_MEMORY_TOKEN_BUDGET),
   worldTime |-> [day |-> time.day, minuteOfDay |-> time.minuteOfDay, tick |-> time.tick]]

\***************************************************************************
\* Replanning (src/src/simulation/replanning.ts)
\***************************************************************************

\* importance.toFixed(2): thousandths rounded to hundredths
toFixed2(importance) == (importance + 5) \div 10

\* createNpcPromptSignature: the joined string as the tuple of its parts
createNpcPromptSignature(promptInput) ==
  << promptInput.currentGoal.action,
     IF promptInput.currentGoal.targetTileId = NoTile THEN "-" ELSE promptInput.currentGoal.targetTileId,
     promptInput.location.currentTileId,
     IF promptInput.location.targetTileId = NoTile THEN "-" ELSE promptInput.location.targetTileId,
     promptInput.worldTime.minuteOfDay,
     [i \in DOMAIN promptInput.memorySummary |->
        << promptInput.memorySummary[i].id, promptInput.memorySummary[i].createdAtTick,
           toFixed2(promptInput.memorySummary[i].importance) >>] >>

shouldRequestNpcReplanNoDedupe(atTick, intervalTicks, promptSignature, lastPlanTick, lastPlanSignature, lastMajorEventTick) ==
  LET cadenceDue == lastPlanTick = Undefined \/ atTick - lastPlanTick >= intervalTicks
      majorEventDue == /\ lastMajorEventTick # Undefined
                       /\ (lastPlanTick = Undefined \/ lastMajorEventTick > lastPlanTick)
  IN IF ~cadenceDue /\ ~majorEventDue THEN ""
     ELSE IF majorEventDue THEN "major_event" ELSE "cadence"

\* shouldRequestNpcReplan: "" stands for the undefined of "not due"
shouldRequestNpcReplan(atTick, intervalTicks, promptSignature, lastPlanTick, lastPlanSignature, lastMajorEventTick) ==
  LET cadenceDue == lastPlanTick = Undefined \/ atTick - lastPlanTick >= intervalTicks
      majorEventDue == /\ lastMajorEventTick # Undefined
                       /\ (lastPlanTick = Undefined \/ lastMajorEventTick > lastPlanTick)
  IN IF ~cadenceDue /\ ~majorEventDue THEN ""
     ELSE IF lastPlanSignature = promptSignature THEN ""
     ELSE IF majorEventDue THEN "major_event" ELSE "cadence"

applyNpcIntentToTask(task, intent) ==
  IF intent = NoIntent THEN task
  ELSE [task EXCEPT !.action = intent.action,
                    !.targetTileId = IF intent.targetTileId # NoTile
                                     THEN intent.targetTileId ELSE task.targetTileId]

\***************************************************************************
\* GamePage (src/unnamed/part_002): configuration and initial state
\***************************************************************************

\* how many times the interval timer fires
MaxTimerTicks == 2
\* how many times the day is reset
MaxResets == 1
\* how many responses of the network arrive between a render and the run of
\* its effects
MaxWindowResponses == 1

\* env.NEXT_PUBLIC_NPC_REPLAN_INTERVAL_TICKS, env.NEXT_PUBLIC_NPC_MAX_REPLANS_PER_TICK:
\* the values this deployment of the model is configured with
NPC_REPLAN_INTERVAL_TICKS == 2
NPC_MAX_REPLANS_PER_TICK == 1
INTERACTION_MAX_DISTANCE == 1
INTERACTION_COOLDOWN_TICKS == 8
INTERACTION_MEMORY_EXPIRATION_TICKS == 360
SNAPSHOT_PERSIST_INTERVAL_TICKS == 5
\* src/src/domain/tiles.ts; the importances in thousandths
DEFAULT_MEMORY_PRUNING_POLICY ==
  [shortTermMaxEntries |-> 40, longTermMaxEntries |-> 120, shortTermMaxAgeTicks |-> 1440,
   promotionImportanceThreshold |-> 700, longTermMinImportance |-> 200]

NoReplan ==
  [lastPlanTick |-> Undefined, lastPlanSignature |-> NoSignature,
   lastMajorEventTick |-> Undefined, intent |-> NoIntent, intentUpdatedAtTick |-> Undefined]

createEmptyMemoryStore(villagerId) ==
  [villagerId |-> villagerId, shortTerm |-> <<>>, longTerm |-> <<>>]

\* the runtime record of villager i of the registry; the villager itself is
\* VILLAGER_REGISTRY[i], the animation state is left out
createInitialVillagerRuntime(villagers) ==
  [i \in DOMAIN villagers |->
     [movement |-> createVillagerMovementComponent(villagers[i].spawnTileId, 0),
      targetTileId |-> villagers[i].spawnTileId,
      npcState |-> "planning",
      actionExecution |-> NoExecution,
      replan |-> NoReplan,
      memoryStore |-> createEmptyMemoryStore(villagers[i].id)]]

\* src/unnamed/part_007
INITIAL_RESOURCE_INVENTORY == [crops |-> 12, coins |-> 30, goodwill |-> 0]

createInitialResourceInventory == INITIAL_RESOURCE_INVENTORY

ACTION_RESOURCE_DELTAS ==
  [a \in VILLAGER_ACTIONS |->
     CASE a = "farm" -> [crops |-> 2, coins |-> 0, goodwill |-> 0]
       [] a = "chat" -> [crops |-> 0, coins |-> 0, goodwill |-> 1]
       [] a = "shop" -> [crops |-> -1, coins |-> 3, goodwill |-> 0]
       [] a = "rest" -> [crops |-> 0, coins |-> 0, goodwill |-> 1]
       [] OTHER -> [crops |-> 0, coins |-> 0, goodwill |-> 0]]

RECURSIVE applyActionResourceEffects(_, _)
applyActionResourceEffects(inventory, actions) ==
  IF Len(actions) = 0 THEN inventory
  ELSE LET delta == ACTION_RESOURCE_DELTAS[Head(actions)]
       IN applyActionResourceEffects(
            [crops |-> Max(0, inventory.crops + delta.crops),
             coins |-> Max(0, inventory.coins + delta.coins),
             goodwill |-> Max(0, inventory.goodwill + delta.goodwill)],
            Tail(actions))

\***************************************************************************
\* GamePage tick effect (src/unnamed/part_002, lines 503-705): the updater
\* it passes to setVillagerRuntime
\***************************************************************************

\* the body of current.map(...) from the planner's answer on: one villager's
\* runtime advanced to tick t, and the route cache after the planner's call
AdvancePlanned(runtime, activeTask, plannedTask, planningResult, t) ==
  LET movementResult == advanceVillagerMovement(planningResult.movement, t)
      taskSignature == createVillagerTaskSignature(plannedTask)
      kept == IF runtime.actionExecution.taskSignature = taskSignature
              THEN runtime.actionExecution ELSE NoExecution
      started == IF shouldStartVillagerActionExecution(kept, taskSignature)
                 THEN beginVillagerActionExecution(activeTask, t, taskSignature)
                 ELSE kept
      actionProgress == advanceVillagerActionExecution(started, t)
      acting == planningResult.npcState = "acting"
      actionExecution == IF ~acting THEN NoExecution
                         ELSE IF started = NoExecution THEN NoExecution
                         ELSE actionProgress.execution
      npcState == IF acting /\ started # NoExecution THEN actionProgress.npcState
                  ELSE planningResult.npcState
      events == movementResult.events
  IN [runtime |-> [runtime EXCEPT
                     !.movement = movementResult.component,
                     !.targetTileId = planningResult.targetTileId,
                     !.npcState = npcState,
                     !.actionExecution = actionExecution,
                     !.replan.lastMajorEventTick =
                        IF Len(events) > 0 THEN events[Len(events)].tick ELSE @],
      cache |-> planningResult.cache]

\* the body of current.map(...) for villager i: the runtime with its entry
\* advanced to tick t, and the route cache after the planner's call
AdvanceVillagerRuntime(advanced, i, t, capacity) ==
  LET runtime == advanced.runtime[i]
      simulationTime == toSimulationTime(t, DAY_LENGTH_TICKS)
      activeTask == resolveActiveVillagerTask(scheduleIndex[i], simulationTime)
      plannedTask == applyNpcIntentToTask(activeTask, runtime.replan.intent)
  IN AdvancePlanned(runtime, activeTask, plannedTask,
                    planVillagerMovementIntent(VILLAGER_REGISTRY[i], runtime.movement, plannedTask,
                                               advanced.cache, capacity, t, runtime.targetTileId),
                    t)

\* the entry of villager i and the route cache replaced by those of one
WithAdvanced(advanced, i, one) ==
  [runtime |-> [advanced.runtime EXCEPT ![i] = one.runtime], cache |-> one.cache]

\* current.map(...) over the villagers from position i on, the one route cache
\* of the pathfinding service passing from each villager to the next
RECURSIVE AdvanceAll(_, _, _, _)
AdvanceAll(advanced, i, t, capacity) ==
  IF i > Len(advanced.runtime) THEN advanced
  ELSE AdvanceAll(WithAdvanced(advanced, i, AdvanceVillagerRuntime(advanced, i, t, capacity)),
                  i + 1, t, capacity)

isNpcInteractionEligible(npcState) == npcState # "moving"

\* [first, second].sort().join("|"): the key of an unordered pair
toVillagerPairKey(firstVillagerId, secondVillagerId) == {firstVillagerId, secondVillagerId}

VillagerPairKeys == {toVillagerPairKey(a, b) : a, b \in VillagerIds} \ {{a} : a \in VillagerIds}

buildMemoryId(villagerId, t, eventId) == <<"memory", villagerId, t, eventId>>

\* the pairs (index, innerIndex) in the order the two nested loops visit them
RECURSIVE PairsFrom(_, _, _)
PairsFrom(index, innerIndex, n) ==
  IF index >= n THEN <<>>
  ELSE IF innerIndex > n THEN PairsFrom(index + 1, index + 2, n)
  ELSE << <<index, innerIndex>> >> \o PairsFrom(index, innerIndex + 1, n)

\* the interactions the nested loops push; a pair is visited once, so the
\* cooldown the loop reads for it is the one of interactionCooldownRef
Interactions(advancedRuntime, t, cooldown) ==
  LET Interacts(pair) ==
        LET left == advancedRuntime[pair[1]]
            right == advancedRuntime[pair[2]]
            leftCoordinate == parseTileIdCoordinate(left.movement.currentTileId)
            rightCoordinate == parseTileIdCoordinate(right.movement.currentTileId)
            manhattanDistance == Abs(leftCoordinate.x - rightCoordinate.x)
                                 + Abs(leftCoordinate.y - rightCoordinate.y)
            pairKey == toVillagerPairKey(VILLAGER_REGISTRY[pair[1]].id, VILLAGER_REGISTRY[pair[2]].id)
        IN /\ isNpcInteractionEligible(left.npcState)
           /\ isNpcInteractionEligible(right.npcState)
           /\ manhattanDistance <= INTERACTION_MAX_DISTANCE
           /\ ~(cooldown[pairKey] # Undefined /\ t - cooldown[pairKey] < INTERACTION_COOLDOWN_TICKS)
      ToEvent(pair) ==
        LET pairKey == toVillagerPairKey(VILLAGER_REGISTRY[pair[1]].id, VILLAGER_REGISTRY[pair[2]].id)
        IN [id |-> <<"interaction", t, pairKey>>, tick |-> t,
            tileId |-> advancedRuntime[pair[1]].movement.currentTileId,
            participants |-> <<VILLAGER_REGISTRY[pair[1]].id, VILLAGER_REGISTRY[pair[2]].id>>,
            pairKey |-> pairKey]
      pairs == SelectSeq(PairsFrom(1, 2, Len(advancedRuntime)), Interacts)
  IN [k \in DOMAIN pairs |-> ToEvent(pairs[k])]

VillagerNamed(villagerId) == CHOOSE v \in {VILLAGER_REGISTRY[i] : i \in VillagerIndexes} : v.id = villagerId

LastN(seq, n) == IF Len(seq) <= n THEN seq ELSE SubSeq(seq, Len(seq) - n + 1, Len(seq))

\* an updater that keeps the oldest entries of the bucket
RememberInteractionsKeepsOldest(runtime, i, interactions, simulationTime) ==
  LET villagerId == VILLAGER_REGISTRY[i].id
      participantEvents == SelectSeq(interactions,
                             LAMBDA e : villagerId = e.participants[1] \/ villagerId = e.participants[2])
      Memory(event) ==
        LET otherVillagerId == IF villagerId = event.participants[1]
                               THEN event.participants[2] ELSE event.participants[1]
        IN [id |-> buildMemoryId(villagerId, event.tick, event.id),
            villagerId |-> villagerId,
            type |-> "interaction",
            summary |-> "Interacted with " \o VillagerNamed(otherVillagerId).name
                        \o " near " \o event.tileId \o ".",
            source |-> [type |-> "villager", actorVillagerId |-> otherVillagerId, eventId |-> event.id],
            createdAt |-> simulationTime,
            importance |-> 550,
            bucket |-> "short_term",
            expiresAfterTicks |-> INTERACTION_MEMORY_EXPIRATION_TICKS]
      interactionMemories == [k \in DOMAIN participantEvents |-> Memory(participantEvents[k])]
      latestEventTick == participantEvents[Len(participantEvents)].tick
  IN IF Len(participantEvents) = 0 THEN runtime
     ELSE [runtime EXCEPT
             !.memoryStore.shortTerm = SubSeq(@ \o interactionMemories, 1,
                                              Min(Len(@ \o interactionMemories),
                                                  DEFAULT_MEMORY_PRUNING_POLICY.shortTermMaxEntries)),
             !.replan.lastMajorEventTick =
                Max(IF @ = Undefined THEN 0 ELSE @, latestEventTick)]

\* advancedRuntime.map(...) of the interaction branch: the memories and the
\* major event tick of one participant
RememberInteractions(runtime, i, interactions, simulationTime) ==
  LET villagerId == VILLAGER_REGISTRY[i].id
      participantEvents == SelectSeq(interactions,
                             LAMBDA e : villagerId = e.participants[1] \/ villagerId = e.participants[2])
      Memory(event) ==
        LET otherVillagerId == IF villagerId = event.participants[1]
                               THEN event.participants[2] ELSE event.participants[1]
        IN [id |-> buildMemoryId(villagerId, event.tick, event.id),
            villagerId |-> villagerId,
            type |-> "interaction",
            summary |-> "Interacted with " \o VillagerNamed(otherVillagerId).name
                        \o " near " \o event.tileId \o ".",
            source |-> [type |-> "villager", actorVillagerId |-> otherVillagerId, eventId |-> event.id],
            createdAt |-> simulationTime,
            importance |-> 550,
            bucket |-> "short_term",
            expiresAfterTicks |-> INTERACTION_MEMORY_EXPIRATION_TICKS]
      interactionMemories == [k \in DOMAIN participantEvents |-> Memory(participantEvents[k])]
      latestEventTick == participantEvents[Len(participantEvents)].tick
  IN IF Len(participantEvents) = 0 THEN runtime
     ELSE [runtime EXCEPT
             !.memoryStore.shortTerm = LastN(@ \o interactionMemories,
                                             DEFAULT_MEMORY_PRUNING_POLICY.shortTermMaxEntries),
             !.replan.lastMajorEventTick =
                Max(IF @ = Undefined THEN 0 ELSE @, latestEventTick)]

\* the updater of the tick effect applied to the current runtime: the next
\* runtime, the route cache and the interaction cooldowns after it
\* the updater after current.map(...): the interactions of the advanced
\* runtime, remembered by their participants
InteractionsApplied(advanced, interactions, t, cooldown) ==
  [runtime |-> [i \in DOMAIN advanced.runtime |->
                  RememberInteractions(advanced.runtime[i], i, interactions,
                                       toSimulationTime(t, DAY_LENGTH_TICKS))],
   cache |-> advanced.cache,
   cooldown |-> [k \in DOMAIN cooldown |->
                   IF \E e \in DOMAIN interactions : interactions[e].pairKey = k
                   THEN t ELSE cooldown[k]],
   interactions |-> interactions]

AdvancedApplied(advanced, t, cooldown) ==
  InteractionsApplied(advanced, Interactions(advanced.runtime, t, cooldown), t, cooldown)

TickUpdater(current, t, cache, capacity, cooldown) ==
  AdvancedApplied(AdvanceAll([runtime |-> current, cache |-> cache], 1, t, capacity), t, cooldown)

\***************************************************************************
\* GamePage completed-action effect (src/unnamed/part_002, lines 707-737)
\***************************************************************************

\* the loop over villagerRuntime from position i on: the actions completed
\* and the map of completedActionTickRef
RECURSIVE CompletedActionsFrom(_, _, _, _)
CompletedActionsFrom(runtime, i, completedActions, nextCompletedActionTick) ==
  IF i > Len(runtime)
  THEN [completedActions |-> completedActions, completedActionTick |-> nextCompletedActionTick]
  ELSE LET actionExecution == runtime[i].actionExecution
           completedAtTick == actionExecution.completedAtTick
           previousCompletedTick == nextCompletedActionTick[i]
           skip == \/ actionExecution = NoExecution
                   \/ completedAtTick = Undefined
                   \/ previousCompletedTick = completedAtTick
                   \/ (previousCompletedTick # Undefined /\ completedAtTick < previousCompletedTick)
       IN IF skip
          THEN CompletedActionsFrom(runtime, i + 1, completedActions, nextCompletedActionTick)
          ELSE CompletedActionsFrom(runtime, i + 1, Append(completedActions, actionExecution.action),
                                    [nextCompletedActionTick EXCEPT ![i] = completedAtTick])

CompletedActionEffect(runtime, completed, inventory) ==
  LET loop == CompletedActionsFrom(runtime, 1, <<>>, completed)
  IN [completedActionTick |-> loop.completedActionTick,
      resourceInventory |-> applyActionResourceEffects(inventory, loop.completedActions)]

\***************************************************************************
\* GamePage replan effect (src/unnamed/part_002, lines 739-894)
\***************************************************************************

NoEvaluation == [evaluated |-> FALSE, replanReason |-> "", promptSignature |-> NoSignature]

NoEvaluations == [i \in VillagerIndexes |-> NoEvaluation]

IsInflightNever(inflight, villagerId) == FALSE

\* inflightReplansRef.current.has(runtime.villager.id)
IsInflight(inflight, villagerId) == villagerId \in inflight

\* the prompt signature of villager i for the rendered runtime at tick t
PromptSignatureOf(runtime, i, t) ==
  LET simulationTime == toSimulationTime(t, DAY_LENGTH_TICKS)
      activeTask == resolveActiveVillagerTask(scheduleIndex[i], simulationTime)
      plannedTask == applyNpcIntentToTask(activeTask, runtime.replan.intent)
      promptInput == assembleNpcPromptInput(VILLAGER_REGISTRY[i], plannedTask, runtime.memoryStore,
                                            runtime.movement.currentTileId, runtime.targetTileId,
                                            simulationTime)
  IN createNpcPromptSignature(promptInput)

\* the for loop over villagerRuntime from position i on.  acc carries the
\* local counter replansRequestedThisTick, the in-flight set, the requests
\* issued and not resolved, and what the loop evaluated for each villager.
RECURSIVE ReplanLoop(_, _, _, _)
ReplanLoop(runtime, i, t, acc) ==
  IF i > Len(runtime) THEN acc
  ELSE IF acc.replansRequestedThisTick >= NPC_MAX_REPLANS_PER_TICK THEN acc
  ELSE IF IsInflight(acc.inflight, VILLAGER_REGISTRY[i].id) THEN ReplanLoop(runtime, i + 1, t, acc)
  ELSE LET promptSignature == PromptSignatureOf(runtime[i], i, t)
           replanReason == shouldRequestNpcReplan(t, NPC_REPLAN_INTERVAL_TICKS, promptSignature,
                                                  runtime[i].replan.lastPlanTick,
                                                  runtime[i].replan.lastPlanSignature,
                                                  runtime[i].replan.lastMajorEventTick)
           evaluated == [acc EXCEPT !.evaluations[i] =
                           [evaluated |-> TRUE, replanReason |-> replanReason,
                            promptSignature |-> promptSignature]]
       IN IF replanReason = "" THEN ReplanLoop(runtime, i + 1, t, evaluated)
          ELSE ReplanLoop(runtime, i + 1, t,
                 [evaluated EXCEPT
                    !.inflight = @ \cup {VILLAGER_REGISTRY[i].id},
                    !.replansRequestedThisTick = @ + 1,
                    !.requests = Append(@, [villager |-> i, tick |-> t,
                                            promptSignature |-> promptSignature,
                                            replanReason |-> replanReason])])

\* a loop that ends after the first villager
ReplanEffectFirstVillagerOnly(runtime, t, inflight, outstanding) ==
  ReplanLoop(SubSeq(runtime, 1, 1), 1, t,
             [replansRequestedThisTick |-> 0, inflight |-> inflight,
              requests |-> outstanding, evaluations |-> NoEvaluations])

ReplanEffect(runtime, t, inflight, outstanding) ==
  ReplanLoop(runtime, 1, t,
             [replansRequestedThisTick |-> 0, inflight |-> inflight,
              requests |-> outstanding, evaluations |-> NoEvaluations])

\***************************************************************************
\* GamePage persist effect (src/unnamed/part_002, lines 1048-1071) and
\* snapshots (lines 217-240, src/src/simulation/snapshots.ts)
\***************************************************************************

NoSnapshot ==
  [version |-> 0, savedAtIso |-> "", world |-> [tick |-> 0, day |-> 0, minuteOfDay |-> 0],
   npcs |-> <<>>]

WORLD_SNAPSHOT_VERSION == 1

\* createWorldSnapshot; new Date().toISOString() is a string, the same one
\* at every call of the model
createWorldSnapshot(t, day, minuteOfDay, runtime) ==
  [version |-> WORLD_SNAPSHOT_VERSION,
   savedAtIso |-> "savedAtIso",
   world |-> [tick |-> t, day |-> day, minuteOfDay |-> minuteOfDay],
   npcs |-> [i \in DOMAIN runtime |->
               [villagerId |-> VILLAGER_REGISTRY[i].id,
                currentTileId |-> runtime[i].movement.currentTileId,
                targetTileId |-> runtime[i].targetTileId,
                npcState |-> runtime[i].npcState,
                memoryStore |-> runtime[i].memoryStore,
                replan |-> runtime[i].replan]]]

\* guards that do not wait for the hydration to finish
ShouldPersistUnhydrated(t, finished, latest) ==
  /\ t % SNAPSHOT_PERSIST_INTERVAL_TICKS = 0
  /\ latest # t

\* the guards of the persist effect
ShouldPersist(t, finished, latest) ==
  /\ finished
  /\ t % SNAPSHOT_PERSIST_INTERVAL_TICKS = 0
  /\ latest # t

\* the updater of the hydration effect: the initial runtime with the
\* persisted fields of each villager the snapshot lists
HydratedRuntime(snapshot) ==
  LET initialRuntime == createInitialVillagerRuntime(listVillagers)
      Persisted(i) == {k \in DOMAIN snapshot.npcs : snapshot.npcs[k].villagerId = VILLAGER_REGISTRY[i].id}
  IN [i \in DOMAIN initialRuntime |->
        IF Persisted(i) = {} THEN initialRuntime[i]
        ELSE LET persisted == snapshot.npcs[CHOOSE k \in Persisted(i) : \A j \in Persisted(i) : j <= k]
             IN [initialRuntime[i] EXCEPT
                   !.movement = createVillagerMovementComponent(persisted.currentTileId, 0),
                   !.targetTileId = persisted.targetTileId,
                   !.npcState = persisted.npcState,
                   !.replan = persisted.replan,
                   !.memoryStore = persisted.memoryStore]]

\***************************************************************************
\* JSON values, as JSON.parse(JSON.stringify(value)) returns them and as the
\* validators of src/src/simulation/snapshots.ts inspect them: tagged with
\* what typeof and Array.isArray tell.  A number is v + frac / 1000; the text
\* of a string is a TLA+ string or, for the identifiers the model keeps as
\* tuples of their parts, that tuple.
\***************************************************************************

JUndefined == [t |-> "undefined"]
JNull == [t |-> "null"]
JNumber(n) == [t |-> "number", v |-> n, frac |-> 0]
JThousandths(n) == [t |-> "number", v |-> n \div 1000, frac |-> n % 1000]
JString(s) == [t |-> "string", v |-> s]
JArray(elements) == [t |-> "array", v |-> elements]

\* JSON.stringify leaves out the properties whose value is undefined
JObject(properties) ==
  [t |-> "object",
   v |-> [k \in {key \in DOMAIN properties : properties[key] # JUndefined} |-> properties[k]]]

\* candidate.key: undefined for a property the object does not have
Get(value, key) ==
  IF value.t = "object" /\ key \in DOMAIN value.v THEN value.v[key] ELSE JUndefined

\* value && typeof value === "object"
IsObject(value) == value.t = "object" \/ value.t = "array"
IsString(value) == value.t = "string"
\* typeof value === "number" && Number.isInteger(value)
IsInteger(value) == value.t = "number" /\ value.frac = 0
\* Array.isArray(value) && value.every(predicate)
IsArrayOf(value, predicate(_)) ==
  value.t = "array" /\ \A i \in DOMAIN value.v : predicate(value.v[i])

\* src/src/domain/simulation-time.ts, actions.ts, tiles.ts
NPC_STATES == {"idle", "planning", "moving", "acting", "resting"}
MEMORY_SOURCE_TYPES == {"self", "world", "villager", "system"}
MEMORY_TYPES == {"observation", "interaction", "task", "emotion", "goal"}

startsWith(value, prefix) ==
  Len(value) >= Len(prefix) /\ SubSeq(value, 1, Len(prefix)) = prefix

\* /^\d+$/
IsDigits(value) ==
  /\ Len(value) > 0
  /\ \A i \in 1..Len(value) :
       SubSeq(value, i, i) \in {"0", "1", "2", "3", "4", "5", "6", "7", "8", "9"}

isVillagerId(value) == startsWith(value, "villager_") /\ Len(value) > Len("villager_")

\* /^tile_\d+_\d+$/
isTileId(value) ==
  /\ startsWith(value, "tile_")
  /\ \E k \in (Len("tile_") + 1)..Len(value) :
       /\ SubSeq(value, k, k) = "_"
       /\ IsDigits(SubSeq(value, Len("tile_") + 1, k - 1))
       /\ IsDigits(SubSeq(value, k + 1, Len(value)))

\* a memory id is the tuple of the parts of `memory_${villagerId}_${tick}_${eventId}`
isMemoryId(value) == Len(value) > 1 /\ value[1] = "memory"

isNpcState(value) == value \in NPC_STATES
isVillagerActionType(value) == value \in VILLAGER_ACTIONS
isMemorySourceType(value) == value \in MEMORY_SOURCE_TYPES
\* Number.isFinite(value) && value >= 0 && value <= 1
isMemoryImportance(value) == value.v >= 0 /\ (value.v < 1 \/ (value.v = 1 /\ value.frac = 0))

isMemoryCreatedAt(value) ==
  /\ IsObject(value)
  /\ IsInteger(Get(value, "day"))
  /\ Get(value, "day").v >= 1
  /\ IsInteger(Get(value, "minuteOfDay"))
  /\ Get(value, "minuteOfDay").v >= 0
  /\ Get(value, "minuteOfDay").v <= 1439

\* the checks isShortTermMemory and isLongTermMemory have in common
isMemoryOfBucket(value, bucket) ==
  /\ IsObject(value)
  /\ IsString(Get(value, "id"))
  /\ isMemoryId(Get(value, "id").v)
  /\ IsString(Get(value, "villagerId"))
  /\ isVillagerId(Get(value, "villagerId").v)
  /\ IsString(Get(value, "type"))
  /\ IsString(Get(value, "summary"))
  /\ IsObject(Get(value, "source"))
  /\ isMemoryCreatedAt(Get(value, "createdAt"))
  /\ IsString(Get(value, "bucket"))
  /\ Get(value, "bucket").v = bucket
  /\ Get(value, "importance").t = "number"
  /\ isMemoryImportance(Get(value, "importance"))
  /\ IsString(Get(Get(value, "source"), "type"))
  /\ isMemorySourceType(Get(Get(value, "source"), "type").v)
  /\ \/ Get(Get(value, "source"), "actorVillagerId") = JUndefined
     \/ /\ IsString(Get(Get(value, "source"), "actorVillagerId"))
        /\ isVillagerId(Get(Get(value, "source"), "actorVillagerId").v)
  /\ \/ Get(Get(value, "source"), "eventId") = JUndefined
     \/ IsString(Get(Get(value, "source"), "eventId"))

isShortTermMemory(value) ==
  /\ isMemoryOfBucket(value, "short_term")
  /\ IsInteger(Get(value, "expiresAfterTicks"))
  /\ Get(value, "expiresAfterTicks").v > 0

isLongTermMemory(value) ==
  /\ isMemoryOfBucket(value, "long_term")
  /\ IsInteger(Get(value, "reinforcementCount"))
  /\ Get(value, "reinforcementCount").v >= 0

isVillagerMemoryStore(value) ==
  /\ IsObject(value)
  /\ IsString(Get(value, "villagerId"))
  /\ isVillagerId(Get(value, "villagerId").v)
  /\ IsArrayOf(Get(value, "shortTerm"), isShortTermMemory)
  /\ IsArrayOf(Get(value, "longTerm"), isLongTermMemory)

\* value === undefined || (typeof value === "number" && Number.isInteger(value))
IsOptionalInteger(value) == value = JUndefined \/ IsInteger(value)

isNpcReplanState(value) ==
  /\ IsObject(value)
  /\ IsOptionalInteger(Get(value, "lastPlanTick"))
  /\ Get(value, "lastPlanSignature") = JUndefined \/ IsString(Get(value, "lastPlanSignature"))
  /\ IsOptionalInteger(Get(value, "lastMajorEventTick"))
  /\ IsOptionalInteger(Get(value, "intentUpdatedAtTick"))
  /\ \/ Get(value, "intent") = JUndefined
     \/ /\ IsObject(Get(value, "intent"))
        /\ IsString(Get(Get(value, "intent"), "action"))
        /\ isVillagerActionType(Get(Get(value, "intent"), "action").v)
        /\ \/ Get(Get(value, "intent"), "targetTileId") = JUndefined
           \/ /\ IsString(Get(Get(value, "intent"), "targetTileId"))
              /\ isTileId(Get(Get(value, "intent"), "targetTileId").v)
        /\ IsString(Get(Get(value, "intent"), "reasoning"))
        /\ IsInteger(Get(Get(value, "intent"), "plannedAtTick"))

isPersistedNpcWorldState(value) ==
  /\ IsObject(value)
  /\ IsString(Get(value, "villagerId"))
  /\ isVillagerId(Get(value, "villagerId").v)
  /\ IsString(Get(value, "currentTileId"))
  /\ isTileId(Get(value, "currentTileId").v)
  /\ IsString(Get(value, "targetTileId"))
  /\ isTileId(Get(value, "targetTileId").v)
  /\ IsString(Get(value, "npcState"))
  /\ isNpcState(Get(value, "npcState").v)
  /\ isVillagerMemoryStore(Get(value, "memoryStore"))
  /\ isNpcReplanState(Get(value, "replan"))

\* the second check of parseWorldSnapshot
isSnapshotWorld(world) ==
  /\ IsInteger(Get(world, "tick"))
  /\ Get(world, "tick").v >= 0
  /\ IsInteger(Get(world, "day"))
  /\ Get(world, "day").v >= 1
  /\ IsInteger(Get(world, "minuteOfDay"))
  /\ Get(world, "minuteOfDay").v >= 0
  /\ Get(world, "minuteOfDay").v <= 1439

\* the snapshot parseWorldSnapshot returns for a candidate that passes
ParsedSnapshot(candidate) ==
  JObject([version |-> JNumber(WORLD_SNAPSHOT_VERSION),
           savedAtIso |-> Get(candidate, "savedAtIso"),
           world |-> JObject([tick |-> Get(Get(candidate, "world"), "tick"),
                              day |-> Get(Get(candidate, "world"), "day"),
                              minuteOfDay |-> Get(Get(candidate, "world"), "minuteOfDay")]),
           npcs |-> Get(candidate, "npcs")])

parseWorldSnapshotAnyVersion(value) ==
  IF ~IsObject(value) THEN JUndefined
  ELSE IF \/ ~IsString(Get(value, "savedAtIso"))
          \/ ~IsObject(Get(value, "world"))
          \/ ~IsArrayOf(Get(value, "npcs"), isPersistedNpcWorldState)
  THEN JUndefined
  ELSE IF ~isSnapshotWorld(Get(value, "world")) THEN JUndefined
  ELSE [ParsedSnapshot(value) EXCEPT !.v.version = Get(value, "version")]

parseWorldSnapshotDropsInvalid(value) ==
  IF ~IsObject(value) THEN JUndefined
  ELSE IF \/ Get(value, "version") # JNumber(WORLD_SNAPSHOT_VERSION)
          \/ ~IsString(Get(value, "savedAtIso"))
          \/ ~IsObject(Get(value, "world"))
          \/ Get(value, "npcs").t # "array"
  THEN JUndefined
  ELSE IF ~isSnapshotWorld(Get(value, "world")) THEN JUndefined
  ELSE [ParsedSnapshot(value) EXCEPT
          !.v.npcs = JArray(SelectSeq(Get(value, "npcs").v, isPersistedNpcWorldState))]

\* parseWorldSnapshot: JUndefined for a candidate it rejects
parseWorldSnapshot(value) ==
  IF ~IsObject(value) THEN JUndefined
  ELSE IF \/ Get(value, "version") # JNumber(WORLD_SNAPSHOT_VERSION)
          \/ ~IsString(Get(value, "savedAtIso"))
          \/ ~IsObject(Get(value, "world"))
          \/ ~IsArrayOf(Get(value, "npcs"), isPersistedNpcWorldState)
  THEN JUndefined
  ELSE IF ~isSnapshotWorld(Get(value, "world")) THEN JUndefined
  ELSE ParsedSnapshot(value)

\* JSON.parse(JSON.stringify(...)) of the values of the runtime: an optional
\* value that is undefined leaves no property
JOptionalTick(atTick) == IF atTick = Undefined THEN JUndefined ELSE JNumber(atTick)
JOptionalTile(tileId) == IF tileId = NoTile THEN JUndefined ELSE JString(tileId)

JMemory(memory) ==
  JObject([id |-> JString(memory.id),
           villagerId |-> JString(memory.villagerId),
           type |-> JString(memory.type),
           summary |-> JString(memory.summary),
           source |-> JObject([type |-> JString(memory.source.type),
                               actorVillagerId |-> JString(memory.source.actorVillagerId),
                               eventId |-> JString(memory.source.eventId)]),
           createdAt |-> JObject([tick |-> JNumber(memory.createdAt.tick),
                                  day |-> JNumber(memory.createdAt.day),
                                  minuteOfDay |-> JNumber(memory.createdAt.minuteOfDay)]),
           importance |-> JThousandths(memory.importance),
           bucket |-> JString(memory.bucket),
           expiresAfterTicks |-> JNumber(memory.expiresAfterTicks)])

JMemoryStore(memoryStore) ==
  JObject([villagerId |-> JString(memoryStore.villagerId),
           shortTerm |-> JArray([i \in DOMAIN memoryStore.shortTerm |->
                                   JMemory(memoryStore.shortTerm[i])]),
           longTerm |-> JArray([i \in DOMAIN memoryStore.longTerm |->
                                  JMemory(memoryStore.longTerm[i])])])

JReplan(replan) ==
  JObject([lastPlanTick |-> JOptionalTick(replan.lastPlanTick),
           lastPlanSignature |-> IF replan.lastPlanSignature = NoSignature THEN JUndefined
                                 ELSE JString(replan.lastPlanSignature),
           lastMajorEventTick |-> JOptionalTick(replan.lastMajorEventTick),
           intent |-> IF replan.intent = NoIntent THEN JUndefined
                      ELSE JObject([action |-> JString(replan.intent.action),
                                    targetTileId |-> JOptionalTile(replan.intent.targetTileId),
                                    reasoning |-> JString(replan.intent.reasoning),
                                    plannedAtTick |-> JNumber(replan.intent.plannedAtTick)]),
           intentUpdatedAtTick |-> JOptionalTick(replan.intentUpdatedAtTick)])

JNpc(npc) ==
  JObject([villagerId |-> JString(npc.villagerId),
           currentTileId |-> JString(npc.currentTileId),
           targetTileId |-> JString(npc.targetTileId),
           npcState |-> JString(npc.npcState),
           memoryStore |-> JMemoryStore(npc.memoryStore),
           replan |-> JReplan(npc.replan)])

\* JSON.parse(JSON.stringify(snapshot)) of a snapshot of createWorldSnapshot
JSnapshot(snapshot) ==
  JObject([version |-> JNumber(snapshot.version),
           savedAtIso |-> JString(snapshot.savedAtIso),
           world |-> JObject([tick |-> JNumber(snapshot.world.tick),
                              day |-> JNumber(snapshot.world.day),
                              minuteOfDay |-> JNumber(snapshot.world.minuteOfDay)]),
           npcs |-> JArray([i \in DOMAIN snapshot.npcs |-> JNpc(snapshot.npcs[i])])])

\* the reads of a parsed snapshot: a property that is absent reads undefined
TickOf(value) == IF value = JUndefined THEN Undefined ELSE value.v
TileOf(value) == IF value = JUndefined THEN NoTile ELSE value.v

MemoryOf(value) ==
  [id |-> Get(value, "id").v,
   villagerId |-> Get(value, "villagerId").v,
   type |-> Get(value, "type").v,
   summary |-> Get(value, "summary").v,
   source |-> [type |-> Get(Get(value, "source"), "type").v,
               actorVillagerId |-> Get(Get(value, "source"), "actorVillagerId").v,
               eventId |-> Get(Get(value, "source"), "eventId").v],
   createdAt |-> [tick |-> TickOf(Get(Get(value, "createdAt"), "tick")),
                  day |-> Get(Get(value, "createdAt"), "day").v,
                  minuteOfDay |-> Get(Get(value, "createdAt"), "minuteOfDay").v],
   importance |-> Get(value, "importance").v * 1000 + Get(value, "importance").frac,
   bucket |-> Get(value, "bucket").v,
   expiresAfterTicks |-> Get(value, "expiresAfterTicks").v]

ReplanOf(value) ==
  [lastPlanTick |-> TickOf(Get(value, "lastPlanTick")),
   lastPlanSignature |-> IF Get(value, "lastPlanSignature") = JUndefined THEN NoSignature
                         ELSE Get(value, "lastPlanSignature").v,
   lastMajorEventTick |-> TickOf(Get(value, "lastMajorEventTick")),
   intent |-> IF Get(value, "intent") = JUndefined THEN NoIntent
              ELSE [action |-> Get(Get(value, "intent"), "action").v,
                    targetTileId |-> TileOf(Get(Get(value, "intent"), "targetTileId")),
                    reasoning |-> Get(Get(value, "intent"), "reasoning").v,
                    plannedAtTick |-> Get(Get(value, "intent"), "plannedAtTick").v],
   intentUpdatedAtTick |-> TickOf(Get(value, "intentUpdatedAtTick"))]

NpcOf(value) ==
  [villagerId |-> Get(value, "villagerId").v,
   currentTileId |-> Get(value, "currentTileId").v,
   targetTileId |-> Get(value, "targetTileId").v,
   npcState |-> Get(value, "npcState").v,
   memoryStore |-> [villagerId |-> Get(Get(value, "memoryStore"), "villagerId").v,
                    shortTerm |-> [i \in DOMAIN Get(Get(value, "memoryStore"), "shortTerm").v |->
                                     MemoryOf(Get(Get(value, "memoryStore"), "shortTerm").v[i])],
                    longTerm |-> [i \in DOMAIN Get(Get(value, "memoryStore"), "longTerm").v |->
                                    MemoryOf(Get(Get(value, "memoryStore"), "longTerm").v[i])]],
   replan |-> ReplanOf(Get(value, "replan"))]

\* the WorldSnapshot a parsed snapshot is read as
SnapshotOf(value) ==
  [version |-> Get(value, "version").v,
   savedAtIso |-> Get(value, "savedAtIso").v,
   world |-> [tick |-> Get(Get(value, "world"), "tick").v,
              day |-> Get(Get(value, "world"), "day").v,
              minuteOfDay |-> Get(Get(value, "world"), "minuteOfDay").v],
   npcs |-> [i \in DOMAIN Get(value, "npcs").v |-> NpcOf(Get(value, "npcs").v[i])]]

\***************************************************************************
\* GamePage as a state machine.  One action per task of the event loop: the
\* render, the run of the effects of the last render, the timer callback,
\* the resolution of a decision request, the resolution of the snapshot
\* read, and the controls.  A state setter takes effect at once on the state
\* variable; the effects read the values of the last render (rendered) and
\* the refs as they are when the effects run.
\***************************************************************************

cacheVars == <<routeCache, maxCachedRoutes, lastCall, useOrder>>

pageVars ==
  <<tick, villagerRuntime, resourceInventory, inflightReplans, interactionCooldown,
    completedActionTick, hydrationFinished, latestPersistedTick, requests, hydration,
    rendered, runtimeUpdated, pendingEffects>>

obsVars == <<initiatedThisTick, lastCompletion, lastStep>>

vars == <<cacheVars, pageVars, storedSnapshot, resets, timerTicks, windowResponses, obsVars>>

NoEffects == [mount |-> FALSE, tick |-> FALSE, runtime |-> FALSE]

NoCall == [request |-> [startTileId |-> NoTile, destinationTileId |-> NoTile, blockedTileIds |-> <<>>],
           result |-> Unreachable(""), evicted |-> {}]

NoCompletion == [outcome |-> "", promptSignature |-> NoSignature, tick |-> Undefined]

Step(kind) ==
  [kind |-> kind, villager |-> 0, outcome |-> "", evaluations |-> NoEvaluations]

\* the state of a freshly loaded page
InitPage ==
  /\ tick = 0
  /\ villagerRuntime = createInitialVillagerRuntime(listVillagers)
  /\ resourceInventory = createInitialResourceInventory
  /\ inflightReplans = {}
  /\ interactionCooldown = [k \in VillagerPairKeys |-> Undefined]
  /\ completedActionTick = [i \in VillagerIndexes |-> Undefined]
  /\ hydrationFinished = FALSE
  /\ latestPersistedTick = Undefined
  /\ requests = <<>>
  /\ hydration = "idle"
  /\ rendered = [tick |-> 0, villagerRuntime |-> createInitialVillagerRuntime(listVillagers)]
  /\ runtimeUpdated = FALSE
  /\ pendingEffects = [mount |-> TRUE, tick |-> TRUE, runtime |-> TRUE]
  /\ initiatedThisTick = 0
  /\ lastCompletion = [i \in VillagerIndexes |-> NoCompletion]
  /\ lastStep = Step("load")

\* the snapshot an earlier run of the page leaves in the store when its
\* snapshot read found none and resolved before the second render: the one
\* the persist effect writes at tick 0, of the initial runtime advanced once
EarlierSnapshot ==
  createWorldSnapshot(0, 1, 0,
    TickUpdater(createInitialVillagerRuntime(listVillagers), 0, <<>>, NoCapacity,
                [k \in VillagerPairKeys |-> Undefined]).runtime)

Init ==
  /\ InitPage
  /\ routeCache = <<>>
  /\ maxCachedRoutes = NoCapacity
  /\ lastCall = NoCall
  /\ useOrder = <<>>
  /\ storedSnapshot \in {NoSnapshot, EarlierSnapshot}
  /\ resets = 0
  /\ timerTicks = 0
  /\ windowResponses = 0

\* React renders again: the effects of this render will see these values
Render ==
  /\ pendingEffects = NoEffects
  /\ tick # rendered.tick \/ runtimeUpdated
  /\ rendered' = [tick |-> tick, villagerRuntime |-> villagerRuntime]
  /\ pendingEffects' = [mount |-> FALSE, tick |-> tick # rendered.tick, runtime |-> runtimeUpdated]
  /\ runtimeUpdated' = FALSE
  /\ lastStep' = Step("render")
  /\ UNCHANGED <<cacheVars, tick, villagerRuntime, resourceInventory, inflightReplans,
                 interactionCooldown, completedActionTick, hydrationFinished, latestPersistedTick,
                 requests, hydration, storedSnapshot, resets, timerTicks, windowResponses, initiatedThisTick, lastCompletion>>

\* the effects of the last render, in the order of their declaration: the
\* hydration effect (on mount), the tick effect, the completed-action effect,
\* the replan effect and the persist effect, each if a dependency changed.
\* persisted: the snapshot POST of the persist effect reaches the store.
RunEffects(persisted) ==
  /\ pendingEffects # NoEffects
  /\ LET t == rendered.tick
         time == toSimulationTime(t, DAY_LENGTH_TICKS)
         runTick == pendingEffects.mount \/ pendingEffects.tick
         runRuntime == pendingEffects.mount \/ pendingEffects.runtime
         updater == TickUpdater(villagerRuntime, t, routeCache, maxCachedRoutes, interactionCooldown)
         completed == CompletedActionEffect(rendered.villagerRuntime, completedActionTick, resourceInventory)
         replan == ReplanEffect(rendered.villagerRuntime, t, inflightReplans, requests)
         persist == ShouldPersist(t, hydrationFinished, latestPersistedTick)
     IN /\ hydration' = IF pendingEffects.mount THEN "fetching" ELSE hydration
        /\ IF runTick
           THEN /\ villagerRuntime' = updater.runtime
                /\ routeCache' = updater.cache
                /\ interactionCooldown' = updater.cooldown
                /\ runtimeUpdated' = TRUE
           ELSE UNCHANGED <<villagerRuntime, routeCache, interactionCooldown, runtimeUpdated>>
        /\ IF runRuntime
           THEN /\ completedActionTick' = completed.completedActionTick
                /\ resourceInventory' = completed.resourceInventory
           ELSE UNCHANGED <<completedActionTick, resourceInventory>>
        /\ inflightReplans' = replan.inflight
        /\ requests' = replan.requests
        /\ initiatedThisTick' = (IF runTick THEN 0 ELSE initiatedThisTick) + replan.replansRequestedThisTick
        /\ lastCompletion' = [i \in VillagerIndexes |->
                                IF replan.evaluations[i].evaluated THEN NoCompletion ELSE lastCompletion[i]]
        /\ IF persist
           THEN /\ latestPersistedTick' = t
                /\ storedSnapshot' = IF persisted
                                     THEN createWorldSnapshot(t, time.day, time.minuteOfDay,
                                                              rendered.villagerRuntime)
                                     ELSE storedSnapshot
           ELSE /\ persisted
                /\ UNCHANGED <<latestPersistedTick, storedSnapshot>>
        /\ lastStep' = [Step("effects") EXCEPT !.evaluations = replan.evaluations]
  /\ pendingEffects' = NoEffects
  /\ UNCHANGED <<maxCachedRoutes, lastCall, useOrder, tick, hydrationFinished,
                 rendered, resets, timerTicks, windowResponses>>

\* nothing is left to render and no effect is left to run.  The timer and
\* the reset control act on an idle page: a control is a discrete event,
\* which React renders and whose effects it runs before the next task, and
\* the timer's period is long against a render.  The pause and play
\* controls only stop and start the timer, which may at any state not fire.
Idle == pendingEffects = NoEffects /\ tick = rendered.tick /\ ~runtimeUpdated

InWindow == pendingEffects # NoEffects /\ ~pendingEffects.mount

\* a response of the network arrives at any time between two renders:
\* after the effects of the last render have run or, up to
\* MaxWindowResponses times, between a render and the run of its effects
ResponseArrives ==
  /\ pendingEffects = NoEffects \/ (InWindow /\ windowResponses < MaxWindowResponses)
  /\ windowResponses' = IF InWindow THEN windowResponses + 1 ELSE windowResponses

\* the setInterval callback: setTick((current) => current + 1)
TimerTick ==
  /\ Idle
  /\ timerTicks < MaxTimerTicks
  /\ timerTicks' = timerTicks + 1
  /\ tick' = tick + 1
  /\ lastStep' = Step("timer")
  /\ UNCHANGED <<cacheVars, villagerRuntime, resourceInventory, inflightReplans,
                 interactionCooldown, completedActionTick, hydrationFinished, latestPersistedTick,
                 requests, hydration, rendered, runtimeUpdated, pendingEffects, storedSnapshot,
                 resets, windowResponses, initiatedThisTick, lastCompletion>>

\* the decisions /api/npc-decision answers with in the model
ApiDecisions ==
  { [action |-> "observe", targetTileId |-> "tile_0_1", reasoning |-> "reasoning"] }

\* a success handler that leaves intentUpdatedAtTick as it was
SucceededReplanKeepsUpdatedTick(entry, request, decision) ==
  [entry EXCEPT
     !.replan.intent = [action |-> decision.action, targetTileId |-> decision.targetTileId,
                        reasoning |-> decision.reasoning, plannedAtTick |-> request.tick],
     !.replan.lastPlanTick = request.tick,
     !.replan.lastPlanSignature = request.promptSignature]

\* the updater of the success handler: the entry of the request's villager
SucceededReplan(entry, request, decision) ==
  [entry EXCEPT
     !.replan.intent = [action |-> decision.action, targetTileId |-> decision.targetTileId,
                        reasoning |-> decision.reasoning, plannedAtTick |-> request.tick],
     !.replan.intentUpdatedAtTick = request.tick,
     !.replan.lastPlanTick = request.tick,
     !.replan.lastPlanSignature = request.promptSignature]

FailedReplanHalts(entry, request) ==
  [entry EXCEPT
     !.npcState = "planning",
     !.actionExecution = NoExecution,
     !.replan.lastPlanTick = request.tick,
     !.replan.lastPlanSignature = request.promptSignature]

FailedReplanClearsIntent(entry, request) ==
  [entry EXCEPT
     !.replan.intent = NoIntent,
     !.replan.intentUpdatedAtTick = request.tick,
     !.replan.lastPlanTick = request.tick,
     !.replan.lastPlanSignature = request.promptSignature]

\* the updater of the catch handler
FailedReplan(entry, request) ==
  [entry EXCEPT
     !.replan.lastPlanTick = request.tick,
     !.replan.lastPlanSignature = request.promptSignature]

ClearInflightNever(inflight, villagerId) == inflight

\* the finally handler: inflightReplansRef.current.delete(runtime.villager.id)
ClearInflight(inflight, villagerId) == inflight \ {villagerId}

\* request k resolves: with a decision (then), or with any failure (catch);
\* finally runs after either
Complete(k, outcome, decision) ==
  /\ ResponseArrives
  /\ k \in DOMAIN requests
  /\ LET request == requests[k]
         i == request.villager
     IN /\ villagerRuntime' =
             [villagerRuntime EXCEPT
                ![i] = IF outcome = "success" THEN SucceededReplan(@, request, decision)
                       ELSE FailedReplan(@, request)]
        /\ inflightReplans' = ClearInflight(inflightReplans, VILLAGER_REGISTRY[i].id)
        /\ lastCompletion' = [lastCompletion EXCEPT
                                ![i] = [outcome |-> outcome,
                                        promptSignature |-> request.promptSignature,
                                        tick |-> request.tick]]
        /\ lastStep' = [Step("complete") EXCEPT !.villager = i, !.outcome = outcome]
  /\ requests' = RemoveAt(requests, k)
  /\ runtimeUpdated' = TRUE
  /\ UNCHANGED <<cacheVars, tick, resourceInventory, interactionCooldown,
                 completedActionTick, hydrationFinished, latestPersistedTick, hydration,
                 rendered, pendingEffects, storedSnapshot, resets, timerTicks, initiatedThisTick>>

\* the snapshot read of the mount resolves: with the stored snapshot
\* (restored), or with none or a failure
HydrationResolves(restored) ==
  /\ ResponseArrives
  /\ hydration = "fetching"
  /\ hydration' = "done"
  /\ hydrationFinished' = TRUE
  /\ IF restored
     THEN /\ storedSnapshot # NoSnapshot
          /\ tick' = storedSnapshot.world.tick
          /\ villagerRuntime' = HydratedRuntime(storedSnapshot)
          /\ runtimeUpdated' = TRUE
     ELSE UNCHANGED <<tick, villagerRuntime, runtimeUpdated>>
  /\ lastStep' = [Step("hydration") EXCEPT !.outcome = IF restored THEN "restored" ELSE "none"]
  /\ UNCHANGED <<cacheVars, resourceInventory, inflightReplans, interactionCooldown,
                 completedActionTick, latestPersistedTick, requests, rendered, pendingEffects,
                 storedSnapshot, resets, timerTicks, initiatedThisTick, lastCompletion>>

\* the reset control, on an idle page, up to MaxResets times
resetDay ==
  /\ Idle
  /\ resets < MaxResets
  /\ resets' = resets + 1
  /\ tick' = 0
  /\ completedActionTick' = [i \in VillagerIndexes |-> Undefined]
  /\ resourceInventory' = createInitialResourceInventory
  /\ lastStep' = Step("resetDay")
  /\ UNCHANGED <<cacheVars, villagerRuntime, inflightReplans, interactionCooldown,
                 hydrationFinished, latestPersistedTick, requests, hydration, rendered,
                 runtimeUpdated, pendingEffects, storedSnapshot, timerTicks, windowResponses,
                 initiatedThisTick, lastCompletion>>

Next ==
  \/ Render
  \/ \E persisted \in BOOLEAN : RunEffects(persisted)
  \/ TimerTick
  \/ \E k \in DOMAIN requests, outcome \in {"success", "failure"}, decision \in ApiDecisions :
       Complete(k, outcome, decision)
  \/ \E restored \in BOOLEAN : HydrationResolves(restored)
  \/ resetDay

Spec == Init /\ [][Next]_vars

\***************************************************************************
\* The page while its timer keeps firing and every request is answered: the
\* day is not reset.  React renders a pending update and runs the effects of
\* a render; setInterval fires again; the fetch of a request and the
\* snapshot read of the mount resolve.
\***************************************************************************

NextRunning ==
  \/ Render
  \/ \E persisted \in BOOLEAN : RunEffects(persisted)
  \/ TimerTick
  \/ \E k \in DOMAIN requests, outcome \in {"success", "failure"}, decision \in ApiDecisions :
       Complete(k, outcome, decision)
  \/ \E restored \in BOOLEAN : HydrationResolves(restored)

\* a run of the effects of the last render, by what it does to
\* pendingEffects: RunEffects is the only step that empties it
EffectsRun == pendingEffects # NoEffects /\ pendingEffects' = NoEffects

\* React renders a pending update and runs the effects of a render, the
\* timer fires again while it may, a request that is outstanding and the
\* snapshot read are answered
SpecRunning ==
  /\ Init
  /\ [][NextRunning]_vars
  /\ WF_vars(Render)
  /\ WF_pendingEffects(EffectsRun)
  /\ WF_vars(TimerTick)
  /\ WF_vars(\E k \in DOMAIN requests, outcome \in {"success", "failure"},
                decision \in ApiDecisions : Complete(k, outcome, decision))
  /\ WF_vars(\E restored \in BOOLEAN : HydrationResolves(restored))

\* villager i has no request in flight and shouldRequestNpcReplan gives a
\* reason for it at the tick and with the runtime the page has
ReplanDue(i) ==
  /\ ~IsInflight(inflightReplans, VILLAGER_REGISTRY[i].id)
  /\ shouldRequestNpcReplan(tick, NPC_REPLAN_INTERVAL_TICKS,
                            PromptSignatureOf(villagerRuntime[i], i, tick),
                            villagerRuntime[i].replan.lastPlanTick,
                            villagerRuntime[i].replan.lastPlanSignature,
                            villagerRuntime[i].replan.lastMajorEventTick) # ""

\* C40: while the timer keeps firing and every request is answered, a
\* villager that is due for a replan and has no request in flight eventually
\* has a request initiated, also when the cap of a run of the replan effect
\* went to a villager before it
C40_NoAgentStarved ==
  \A i \in VillagerIndexes :
    ReplanDue(i) ~> IsInflight(inflightReplans, VILLAGER_REGISTRY[i].id)

\* the second villager was due at the tick the first was, the cap of that
\* run went to the first, and a later run at the same tick initiated the
\* request of the second
C40_Witness ==
  /\ lastStep.kind = "effects"
  /\ lastStep.evaluations[2].replanReason # ""
  /\ IsInflight(inflightReplans, VILLAGER_REGISTRY[2].id)
  /\ \E k, l \in DOMAIN requests :
       /\ k < l
       /\ requests[k].villager = 1
       /\ requests[l].villager = 2
       /\ requests[k].tick = requests[l].tick

\***************************************************************************
\* The pathfinding service on its own: any sequence of findPath calls on a
\* service created with any of the configured capacities
\***************************************************************************

\* the maxCachedRoutes arguments: omitted, negative, zero, a non-integer,
\* and the positive integers up to MaxCapacity
ConfiguredCapacities ==
  {NoCapacity, Capacity(-1, 1), Capacity(0, 1), Capacity(3, 2)}
    \cup {Capacity(n, 1) : n \in 1..MaxCapacity}

\* the requests of the calls: known, unknown and unwalkable ends, with
\* blocked lists that are empty, equal as sets in two orders, cutting the
\* route, and holding the start
CacheRequests ==
  [startTileId : {"tile_0_0", "tile_1_1", OffMapTileId},
   destinationTileId : {"tile_0_0", "tile_1_0", "tile_2_0", "tile_1_1", OffMapTileId},
   blockedTileIds : {<<>>, <<"tile_0_1", "tile_2_1">>, <<"tile_2_1", "tile_0_1">>,
                     <<"tile_1_0">>, <<"tile_0_0">>}]

BlockedSet(request) == {request.blockedTileIds[i] : i \in DOMAIN request.blockedTileIds}

SameQuery(entry, request) ==
  /\ entry.startTileId = request.startTileId
  /\ entry.destinationTileId = request.destinationTileId
  /\ entry.blocked = BlockedSet(request)

\* the found routes in the order of their last use after a call: a route
\* asked again moves to the end, a route found first is added at the end,
\* and a route whose key has left the cache is dropped
UseOrderAfter(order, request, result, cacheAfter) ==
  LET Same(e) == SameQuery(e, request)
      Other(e) == ~SameQuery(e, request)
      known == SelectSeq(order, Same)
      entry == IF Len(known) > 0 THEN known[1]
               ELSE [startTileId |-> request.startTileId,
                     destinationTileId |-> request.destinationTileId,
                     blocked |-> BlockedSet(request),
                     blockedTileIds |-> request.blockedTileIds,
                     path |-> result.path,
                     key |-> toCacheKey(request.startTileId, request.destinationTileId,
                                        request.blockedTileIds)]
      used == IF result.status = "found" /\ request.startTileId # request.destinationTileId
              THEN Append(SelectSeq(order, Other), entry)
              ELSE order
      Cached(e) == e.key \in CacheKeys(cacheAfter)
  IN SelectSeq(used, Cached)

InitCache ==
  /\ InitPage
  /\ routeCache = <<>>
  /\ maxCachedRoutes \in ConfiguredCapacities
  /\ lastCall = NoCall
  /\ useOrder = <<>>
  /\ storedSnapshot = NoSnapshot
  /\ resets = 0
  /\ timerTicks = 0
  /\ windowResponses = 0

\* pathfinding.findPath(request)
FindPathCall(request) ==
  LET call == findPath(routeCache, maxCachedRoutes, request)
  IN /\ routeCache' = call.cache
     /\ lastCall' = [request |-> request, result |-> call.result,
                     evicted |-> CacheKeys(routeCache) \ CacheKeys(call.cache)]
     /\ useOrder' = UseOrderAfter(useOrder, request, call.result, call.cache)
     /\ UNCHANGED <<maxCachedRoutes, pageVars, storedSnapshot, resets, timerTicks,
                    windowResponses, obsVars>>

NextCache == \E request \in CacheRequests : FindPathCall(request)

SpecCache == InitCache /\ [][NextCache]_vars

\* C8: the route cache never holds more entries than its capacity: 256 when
\* the capacity is omitted, 1 when it is not a positive integer, and the
\* given capacity otherwise.
C8_CacheWithinCapacity ==
  /\ ~maxCachedRoutes.given => Len(routeCache) <= 256
  /\ (maxCachedRoutes.given /\ (maxCachedRoutes.num <= 0 \/ maxCachedRoutes.num % maxCachedRoutes.den # 0))
       => Len(routeCache) <= 1
  /\ (maxCachedRoutes.given /\ maxCachedRoutes.num > 0 /\ maxCachedRoutes.num % maxCachedRoutes.den = 0)
       => Len(routeCache) <= maxCachedRoutes.num \div maxCachedRoutes.den

\* a cache of the non-integer capacity 3/2 holds one route after a second
\* route displaced the first
C8_Witness ==
  /\ maxCachedRoutes = Capacity(3, 2)
  /\ Len(routeCache) = 1
  /\ lastCall.evicted # {}

\* C9: a call that inserts a newly found path into a full cache evicts
\* exactly the route used least recently, hits counting as uses, and leaves
\* every other route cached.
C9_EvictsLeastRecentlyUsed ==
  [][ (/\ lastCall'.result.status = "found"
       /\ ~lastCall'.result.fromCache
       /\ lastCall'.request.startTileId # lastCall'.request.destinationTileId
       /\ Len(routeCache) = normalizedMaxCachedRoutes(maxCachedRoutes))
      => /\ Len(useOrder) = Len(routeCache)
         /\ lastCall'.evicted = {Head(useOrder).key}
         /\ CacheKeys(routeCache') =
              (CacheKeys(routeCache) \ {Head(useOrder).key})
                \cup {toCacheKey(lastCall'.request.startTileId,
                                 lastCall'.request.destinationTileId,
                                 lastCall'.request.blockedTileIds)}
         /\ \A i \in DOMAIN routeCache :
              routeCache[i].key # Head(useOrder).key =>
                \E j \in DOMAIN routeCache' : routeCache'[j] = routeCache[i] ]_vars

\* a route was evicted from a cache of capacity 2 whose other route, cached
\* before the evicted one, stayed because a hit had refreshed it
C9_Witness ==
  /\ maxCachedRoutes = Capacity(2, 1)
  /\ lastCall.evicted = {"tile_0_0->tile_2_0|"}
  /\ Len(routeCache) = 2
  /\ routeCache[1].key = "tile_0_0->tile_1_0|"

\* C10: a call whose start, destination and blocked set are those of a route
\* that is still cached returns found, fromCache and the path of that route,
\* whatever the order of the blocked ids; and a call answers from the cache
\* only with the route of its own start, destination and blocked set.
C10_CacheRoundTrip ==
  [][ LET request == lastCall'.request
          result == lastCall'.result
      IN /\ \A i \in DOMAIN useOrder :
              SameQuery(useOrder[i], request)
                => /\ result.status = "found"
                   /\ result.fromCache
                   /\ result.path = useOrder[i].path
         /\ (result.status = "found" /\ result.fromCache)
              => \E i \in DOMAIN useOrder :
                   SameQuery(useOrder[i], request) /\ result.path = useOrder[i].path ]_vars

\* a route cached with the blocked ids in one order answers a call that
\* lists them in the other order
C10_Witness ==
  /\ lastCall.result.status = "found"
  /\ lastCall.result.fromCache
  /\ lastCall.request.blockedTileIds = <<"tile_2_1", "tile_0_1">>
  /\ \E i \in DOMAIN useOrder :
       /\ SameQuery(useOrder[i], lastCall.request)
       /\ useOrder[i].blockedTileIds = <<"tile_0_1", "tile_2_1">>
       /\ lastCall.result.path = useOrder[i].path

\* C11: a findPath call that returns unreachable, for any reason, or whose
\* start equals its destination leaves the route cache as it was, in
\* contents and in order of recency, and is not answered from the cache; a
\* call with start equal to destination that finds a path finds the path of
\* that one tile.
C11_UnreachableOrTrivialLeavesCache ==
  [][ LET request == lastCall'.request
          result == lastCall'.result
      IN (result.status = "unreachable" \/ request.startTileId = request.destinationTileId)
           => /\ routeCache' = routeCache
              /\ useOrder' = useOrder
              /\ ~result.fromCache
              /\ result.status \in {"found", "unreachable"}
              /\ (request.startTileId = request.destinationTileId /\ result.status = "found")
                   => result.path = <<request.startTileId>> ]_vars

\* a call with no route, and a call from a tile to itself, on a cache that
\* holds a route
C11_Witness ==
  /\ Len(routeCache) > 0
  /\ lastCall.request.startTileId = lastCall.request.destinationTileId
  /\ lastCall.result.status = "found"
  /\ \E i \in DOMAIN useOrder : useOrder[i].startTileId = lastCall.request.startTileId

C11_WitnessNoRoute ==
  /\ Len(routeCache) > 0
  /\ lastCall.result.status = "unreachable"
  /\ lastCall.result.reason = "no-route"

\***************************************************************************
\* findPath of a fresh pathfinding service on a grid with room for more than
\* one route: one call on any request of the bounded sets, answered by the
\* search of src/unnamed/part_006 and by the search of src/unnamed/part_005
\***************************************************************************

\* the most tiles a request blocks
MaxBlockedTiles == 3

GridDimensions == [width |-> 4, height |-> 3]

\* the tiles of the grid, row by row, all of them paths but the water of the
\* last corner
GridTiles ==
  [i \in 1..(GridDimensions.width * GridDimensions.height) |->
     LET x == (i - 1) % GridDimensions.width
         y == (i - 1) \div GridDimensions.width
         type == IF x = GridDimensions.width - 1 /\ y = GridDimensions.height - 1
                 THEN "water" ELSE "path"
     IN [id |-> TileIdOf(x, y), x |-> x, y |-> y, type |-> type, walkable |-> isWalkable(type)]]

GridTileIds == {GridTiles[i].id : i \in DOMAIN GridTiles}

gridNodesById == createNodesById(GridTiles)

\* the blocked lists of the requests: up to MaxBlockedTiles tiles of the grid
BlockedLists ==
  {SelectSeq([i \in DOMAIN GridTiles |-> GridTiles[i].id], LAMBDA id : id \in blocked) :
     blocked \in {b \in SUBSET GridTileIds : Cardinality(b) <= MaxBlockedTiles}}

ShortestPathRequests ==
  [startTileId : GridTileIds, destinationTileId : GridTileIds, blockedTileIds : BlockedLists]

InitShortestPath ==
  /\ InitPage
  /\ routeCache = <<>>
  /\ maxCachedRoutes = NoCapacity
  /\ lastCall \in [request : ShortestPathRequests, called : {FALSE},
                    result : {Unreachable("")}, openSetPath : {<<>>}]
  /\ useOrder = <<>>
  /\ storedSnapshot = NoSnapshot
  /\ resets = 0
  /\ timerTicks = 0
  /\ windowResponses = 0

\* the call reaches the search: both ends are tiles of the grid, walkable,
\* not blocked and not the same tile
ReachesSearch(nodes, request) ==
  /\ request.startTileId \in DOMAIN nodes
  /\ request.destinationTileId \in DOMAIN nodes
  /\ nodes[request.startTileId].walkable
  /\ nodes[request.destinationTileId].walkable
  /\ request.startTileId \notin BlockedSet(request)
  /\ request.destinationTileId \notin BlockedSet(request)
  /\ request.startTileId # request.destinationTileId

\* createPathfindingService(tiles).findPath(request); openSetPath is the path
\* the search of src/unnamed/part_005 gives the same call
ShortestPathCall ==
  /\ ~lastCall.called
  /\ lastCall' =
       [lastCall EXCEPT
          !.called = TRUE,
          !.result = findPathOn(gridNodesById, <<>>, NoCapacity, lastCall.request).result,
          !.openSetPath =
             IF ReachesSearch(gridNodesById, lastCall.request)
             THEN findShortestPathOpenSet(gridNodesById, lastCall.request.startTileId,
                                          lastCall.request.destinationTileId,
                                          BlockedSet(lastCall.request))
             ELSE findPathOn(gridNodesById, <<>>, NoCapacity, lastCall.request).result.path]
  /\ UNCHANGED <<routeCache, maxCachedRoutes, useOrder, pageVars, storedSnapshot, resets,
                 timerTicks, windowResponses, obsVars>>

NextShortestPath == ShortestPathCall

SpecShortestPath == InitShortestPath /\ [][NextShortestPath]_vars

\* C12: for a start and a destination that are tiles of the grid, walkable
\* and not blocked, findPath returns found with a path from the start to the
\* destination that steps only between 4-adjacent walkable tiles that are not
\* blocked and has as few steps as a breadth-first search needs, and returns
\* unreachable with the reason no-route exactly when the destination cannot
\* be reached; so with either search.
C12_ShortestPath ==
  lastCall.called =>
    LET start == lastCall.request.startTileId
        destination == lastCall.request.destinationTileId
        blocked == BlockedSet(lastCall.request)
        passable == {id \in GridTileIds : gridNodesById[id].walkable /\ id \notin blocked}
        Adjacent(a, b) == Abs(gridNodesById[a].x - gridNodesById[b].x)
                            + Abs(gridNodesById[a].y - gridNodesById[b].y) = 1
        RECURSIVE Within(_)
        Within(k) == IF k = 0 THEN {start}
                     ELSE LET before == Within(k - 1)
                          IN before \cup {id \in passable : \E b \in before : Adjacent(b, id)}
        reachable == destination \in Within(Cardinality(passable))
        distance == CHOOSE k \in 0..Cardinality(passable) :
                      /\ destination \in Within(k)
                      /\ \A j \in 0..(k - 1) : destination \notin Within(j)
        IsRoute(path) ==
          /\ Len(path) >= 1
          /\ path[1] = start
          /\ path[Len(path)] = destination
          /\ \A i \in DOMAIN path : path[i] \in passable
          /\ \A i \in 1..(Len(path) - 1) : Adjacent(path[i], path[i + 1])
          /\ Len(path) - 1 = distance
    IN (start \in passable /\ destination \in passable)
         => IF reachable
            THEN /\ lastCall.result.status = "found"
                 /\ IsRoute(lastCall.result.path)
                 /\ IsRoute(lastCall.openSetPath)
            ELSE /\ lastCall.result.status = "unreachable"
                 /\ lastCall.result.reason = "no-route"
                 /\ lastCall.openSetPath = <<>>

\* a call answered with a route that goes around blocked tiles, longer than
\* the Manhattan distance of its ends
C12_Witness ==
  /\ lastCall.called
  /\ lastCall.result.status = "found"
  /\ BlockedSet(lastCall.request) # {}
  /\ Len(lastCall.result.path) - 1
       > heuristicDistance(gridNodesById, lastCall.request.startTileId,
                           lastCall.request.destinationTileId)
  /\ Len(lastCall.openSetPath) = Len(lastCall.result.path)

\***************************************************************************
\* The movement component on its own: created, then any sequence of
\* assignVillagerMovementPath and advanceVillagerMovement calls on any path
\* and tick of the bounded sets.  lastCall holds the component, the last
\* call and its events, and the arrival events emitted since the last
\* assignment.
\***************************************************************************

\* the longest path assigned and the largest tick of a call
MaxPathLength == 3
MaxMovementTick == 4

MovementTiles == {"tile_0_0", "tile_1_0"}

\* the paths of the calls, the empty one among them
MovementPaths == UNION {[1..n -> MovementTiles] : n \in 0..MaxPathLength}

\* the ticks of the calls, a negative one among them
MovementTicks == -1..MaxMovementTick

InitMovement ==
  /\ InitPage
  /\ routeCache = <<>>
  /\ maxCachedRoutes = NoCapacity
  /\ \E startTileId \in MovementTiles, initialTick \in {0, 1} :
       lastCall = [component |-> createVillagerMovementComponent(startTileId, initialTick),
                   call |-> "create", tick |-> initialTick, threw |-> FALSE,
                   events |-> <<>>, emitted |-> 0]
  /\ useOrder = <<>>
  /\ storedSnapshot = NoSnapshot
  /\ resets = 0
  /\ timerTicks = 0
  /\ windowResponses = 0

\* assignVillagerMovementPath(component, path, tick)
AssignPathCall(path, atTick) ==
  /\ lastCall' =
       IF ~assertNonNegativeInteger(atTick) \/ Len(path) = 0
       THEN [lastCall EXCEPT !.call = "assign", !.tick = atTick, !.threw = TRUE, !.events = <<>>]
       ELSE [component |-> assignVillagerMovementPath(lastCall.component, path, atTick),
             call |-> "assign", tick |-> atTick, threw |-> FALSE,
             events |-> <<>>, emitted |-> 0]
  /\ UNCHANGED <<routeCache, maxCachedRoutes, useOrder, pageVars, storedSnapshot, resets,
                 timerTicks, windowResponses, obsVars>>

\* advanceVillagerMovement(component, tick)
AdvanceMovementCall(atTick) ==
  /\ lastCall' =
       IF ~assertNonNegativeInteger(atTick)
       THEN [lastCall EXCEPT !.call = "advance", !.tick = atTick, !.threw = TRUE, !.events = <<>>]
       ELSE [component |-> advanceVillagerMovement(lastCall.component, atTick).component,
             call |-> "advance", tick |-> atTick, threw |-> FALSE,
             events |-> advanceVillagerMovement(lastCall.component, atTick).events,
             emitted |-> lastCall.emitted
                           + Len(advanceVillagerMovement(lastCall.component, atTick).events)]
  /\ UNCHANGED <<routeCache, maxCachedRoutes, useOrder, pageVars, storedSnapshot, resets,
                 timerTicks, windowResponses, obsVars>>

NextMovement ==
  \/ \E path \in MovementPaths, atTick \in MovementTicks : AssignPathCall(path, atTick)
  \/ \E atTick \in MovementTicks : AdvanceMovementCall(atTick)

SpecMovement == InitMovement /\ [][NextMovement]_vars

\* C13: after a path of more than one tile is assigned, the advance calls
\* emit one arrival event and no more: the call in which the end of the path
\* is first reached emits it, with the tick that call found as
\* lastProcessedTick plus the tiles that were left, and no other call emits
\* one until a path is assigned again; after a path of one tile is assigned
\* no call emits one.
C13_OneArrivalPerAssignment ==
  [][ LET before == lastCall.component
          after == lastCall'.component
          end == Len(before.path) - 1
      IN /\ lastCall'.emitted <= 1
         /\ lastCall'.emitted = 1 <=> (Len(after.path) > 1 /\ after.pathIndex = Len(after.path) - 1)
         /\ (lastCall'.call = "advance" /\ ~lastCall'.threw)
              => /\ Len(lastCall'.events) = 1
                      <=> (end >= 1 /\ before.pathIndex < end /\ after.pathIndex = end)
                 /\ Len(lastCall'.events) = 1
                      => /\ lastCall'.events[1].tick
                              = before.lastProcessedTick + (end - before.pathIndex)
                         /\ lastCall'.events[1].tileId = before.path[end + 1]
         /\ lastCall'.call # "advance" => lastCall'.events = <<>> ]_vars

\* the arrival of a path of three tiles, reached by a call two or more
\* ticks after the assignment, followed by a later advance call
C13_Witness ==
  /\ lastCall.call = "advance"
  /\ ~lastCall.threw
  /\ Len(lastCall.component.path) = 3
  /\ lastCall.component.pathIndex = 2
  /\ lastCall.emitted = 1
  /\ lastCall.events = <<>>
  /\ lastCall.component.lastProcessedTick > lastCall.component.arrivedAtTick

\* C14: advanceVillagerMovement called with a tick k > 0 past
\* lastProcessedTick on a path of n > 1 tiles moves pathIndex forward by the
\* smaller of k and n - 1 - pathIndex, sets currentTileId to the tile at the
\* new index and sets lastProcessedTick to the tick.
C14_AdvanceByTickDelta ==
  [][ LET before == lastCall.component
          after == lastCall'.component
          k == lastCall'.tick - before.lastProcessedTick
          n == Len(before.path)
      IN (lastCall'.call = "advance" /\ ~lastCall'.threw /\ k > 0 /\ n > 1)
           => /\ after.pathIndex = before.pathIndex + Min(k, n - 1 - before.pathIndex)
              /\ after.currentTileId = before.path[after.pathIndex + 1]
              /\ after.lastProcessedTick = lastCall'.tick
              /\ after.path = before.path ]_vars

\* an advance that reaches the end of a path of three tiles at the very tick
\* of the arrival, and so is not clamped
C14_Witness ==
  /\ lastCall.call = "advance"
  /\ ~lastCall.threw
  /\ Len(lastCall.component.path) = 3
  /\ lastCall.component.pathIndex = 2
  /\ Len(lastCall.events) = 1
  /\ lastCall.tick = lastCall.events[1].tick

\* the last call is an advance that took the no-op branch
NoOpAdvance ==
  /\ lastCall'.call = "advance"
  /\ ~lastCall'.threw
  /\ \/ lastCall'.tick <= lastCall.component.lastProcessedTick
     \/ Len(lastCall.component.path) <= 1

\* C29: advanceVillagerMovement with a tick at or before lastProcessedTick,
\* or with a path of at most one tile, returns a component equal to its
\* input in every field, lastProcessedTick included, and no event.
C29_NoOpReturnsInput ==
  [][NoOpAdvance => /\ lastCall'.component = lastCall.component
                    /\ lastCall'.events = <<>>]_vars

\* C29 amended: such a call returns no event and a component equal to its
\* input in every field but lastProcessedTick, which is the larger of the
\* input's and the tick: unchanged for a tick at or before lastProcessedTick,
\* advanced to the tick for a later tick on a path of at most one tile.
C29_NoOpAdvancesLastProcessedTick ==
  [][NoOpAdvance =>
       /\ lastCall'.component =
            [lastCall.component EXCEPT
               !.lastProcessedTick = Max(lastCall.component.lastProcessedTick, lastCall'.tick)]
       /\ lastCall'.tick <= lastCall.component.lastProcessedTick
            => lastCall'.component = lastCall.component
       /\ lastCall'.events = <<>>]_vars

\* an advance on a path of one tile, at a tick past the one the path was
\* assigned at
C29_Witness ==
  /\ lastCall.call = "advance"
  /\ ~lastCall.threw
  /\ Len(lastCall.component.path) = 1
  /\ lastCall.component.lastProcessedTick = lastCall.tick
  /\ lastCall.component.arrivedAtTick < lastCall.tick
  /\ lastCall.events = <<>>

\* C15: after any sequence of calls of createVillagerMovementComponent,
\* assignVillagerMovementPath and advanceVillagerMovement that do not throw,
\* the path of the component is not empty, pathIndex is an index of the path
\* and currentTileId is the tile of the path at pathIndex.
C15_MovementComponentInvariant ==
  LET component == lastCall.component
  IN /\ Len(component.path) >= 1
     /\ 0 <= component.pathIndex
     /\ component.pathIndex <= Len(component.path) - 1
     /\ component.currentTileId = component.path[component.pathIndex + 1]

\* a component part of the way along a path that visits both tiles
C15_Witness ==
  /\ lastCall.call = "advance"
  /\ ~lastCall.threw
  /\ Len(lastCall.component.path) = 3
  /\ lastCall.component.pathIndex = 1
  /\ lastCall.component.path[1] # lastCall.component.path[2]

\***************************************************************************
\* An action execution on its own: begun for any action at a tick of the
\* bounded set, then advanced by any sequence of calls.  lastCall holds the
\* execution, the last call, and whether a call before the last one had a
\* tick at or past completesAtTick.
\***************************************************************************

\* the largest tick of a call
MaxExecutionTick == 10

ExecutionTasks ==
  [villagerId : {VILLAGER_REGISTRY[1].id}, action : VILLAGER_ACTIONS,
   targetTileId : {NoTile}, source : {"schedule"}]

InitActionExecution ==
  /\ InitPage
  /\ routeCache = <<>>
  /\ maxCachedRoutes = NoCapacity
  /\ \E task \in ExecutionTasks, atTick \in {0, 1} :
       lastCall = [execution |-> beginVillagerActionExecution(
                                   task, atTick, createVillagerTaskSignature(task)),
                   task |-> task, call |-> "begin", tick |-> atTick,
                   completed |-> FALSE, reachedBefore |-> FALSE]
  /\ useOrder = <<>>
  /\ storedSnapshot = NoSnapshot
  /\ resets = 0
  /\ timerTicks = 0
  /\ windowResponses = 0

\* advanceVillagerActionExecution(execution, tick), the execution it returns
\* kept as the tick loop keeps it
AdvanceExecutionCall(atTick) ==
  /\ lastCall.execution # NoExecution
  /\ lastCall' =
       [lastCall EXCEPT
          !.execution = advanceVillagerActionExecution(lastCall.execution, atTick).execution,
          !.completed = advanceVillagerActionExecution(lastCall.execution, atTick).completed,
          !.call = "advance",
          !.tick = atTick,
          !.reachedBefore = \/ lastCall.reachedBefore
                            \/ (lastCall.call = "advance"
                                  /\ lastCall.tick >= lastCall.execution.completesAtTick)]
  /\ UNCHANGED <<routeCache, maxCachedRoutes, useOrder, pageVars, storedSnapshot, resets,
                 timerTicks, windowResponses, obsVars>>

NextActionExecution == \E atTick \in 0..MaxExecutionTick : AdvanceExecutionCall(atTick)

SpecActionExecution == InitActionExecution /\ [][NextActionExecution]_vars

\* C16: an execution of duration d begun at tick t has completedAtTick set by
\* the first advance call whose tick is t + d or more, to that call's tick,
\* and by no call before it; no later call sets it again.
C16_CompletesAtFirstDueAdvance ==
  [][ LET before == lastCall.execution
          after == lastCall'.execution
          d == ACTION_DURATION_TICKS[lastCall.task.action]
          first == ~lastCall'.reachedBefore /\ lastCall'.tick >= before.startedAtTick + d
      IN lastCall'.call = "advance"
           => /\ after.completesAtTick = after.startedAtTick + d
              /\ after.startedAtTick = before.startedAtTick
              /\ first => (before.completedAtTick = Undefined
                             /\ after.completedAtTick = lastCall'.tick
                             /\ after.completedAtTick >= before.startedAtTick + d
                             /\ lastCall'.completed)
              /\ ~first => (after.completedAtTick = before.completedAtTick
                              /\ ~lastCall'.completed)
              /\ (~first /\ ~lastCall'.reachedBefore) => after.completedAtTick = Undefined ]_vars

\* an execution completed by a call past its due tick, after a call before
\* the due tick, and advanced again later
C16_Witness ==
  /\ lastCall.call = "advance"
  /\ lastCall.reachedBefore
  /\ lastCall.execution.completedAtTick > lastCall.execution.completesAtTick
  /\ lastCall.tick > lastCall.execution.completedAtTick

\***************************************************************************
\* Decision guardrails (src/e2e/game-smoke.spec.ts, lines 310-402 and
\* 462-464).  A rule's evaluate function is told by the rule's id.
\***************************************************************************

DECISION_POLICY_RULES_QuietHoursFirst ==
  << [id |-> "quiet-hours-social", disallowedActions |-> <<"chat", "shop">>,
      outcome |-> [type |-> "rewrite", action |-> "observe",
                   reason |-> "Social and market actions are disallowed during quiet hours."]],
     [id |-> "role-restriction-shop", disallowedActions |-> <<"shop">>,
      outcome |-> [type |-> "block", action |-> "",
                   reason |-> "Only merchant-role villagers may execute shop actions."]],
     [id |-> "role-restriction-farm", disallowedActions |-> <<"farm">>,
      outcome |-> [type |-> "rewrite", action |-> "observe",
                   reason |-> "Non-farmer villagers cannot execute farm actions."]] >>

DECISION_POLICY_RULES ==
  << [id |-> "role-restriction-shop", disallowedActions |-> <<"shop">>,
      outcome |-> [type |-> "block", action |-> "",
                   reason |-> "Only merchant-role villagers may execute shop actions."]],
     [id |-> "role-restriction-farm", disallowedActions |-> <<"farm">>,
      outcome |-> [type |-> "rewrite", action |-> "observe",
                   reason |-> "Non-farmer villagers cannot execute farm actions."]],
     [id |-> "quiet-hours-social", disallowedActions |-> <<"chat", "shop">>,
      outcome |-> [type |-> "rewrite", action |-> "observe",
                   reason |-> "Social and market actions are disallowed during quiet hours."]] >>

\* rule.evaluate(context)
evaluate(rule, context) ==
  CASE rule.id = "role-restriction-shop" -> context.role # "merchant"
    [] rule.id = "role-restriction-farm" -> context.role # "farmer"
    [] rule.id = "quiet-hours-social" ->
         context.worldTime.minuteOfDay < 360 \/ context.worldTime.minuteOfDay >= 1320

\* Array.prototype.includes
Includes(seq, value) == \E i \in DOMAIN seq : seq[i] = value

actionRequiresTargetAlways(action) == TRUE

actionRequiresTarget(action) == action = "walk" \/ action = "farm" \/ action = "shop"

NoDecision == [action |-> "", reasoning |-> "", targetTileId |-> NoTile]

\* the for loop over DECISION_POLICY_RULES from position i on.  moderation
\* carries moderatedAction, moderatedTargetTileId and policyViolations, and
\* the LlmAdapterApiError a block throws.
RECURSIVE GuardrailLoop(_, _, _)
GuardrailLoop(i, context, moderation) ==
  IF i > Len(DECISION_POLICY_RULES) THEN moderation
  ELSE IF \/ ~Includes(DECISION_POLICY_RULES[i].disallowedActions, moderation.moderatedAction)
          \/ ~evaluate(DECISION_POLICY_RULES[i], context)
  THEN GuardrailLoop(i + 1, context, moderation)
  ELSE IF DECISION_POLICY_RULES[i].outcome.type = "block"
  THEN [moderation EXCEPT !.threw = TRUE, !.status = 422,
                          !.blockedBy = DECISION_POLICY_RULES[i].id]
  ELSE GuardrailLoop(
         i + 1, context,
         [moderation EXCEPT
            !.moderatedAction = DECISION_POLICY_RULES[i].outcome.action,
            !.moderatedTargetTileId =
               IF ~actionRequiresTarget(DECISION_POLICY_RULES[i].outcome.action)
               THEN NoTile ELSE @,
            !.policyViolations =
               Append(@, [policyId |-> DECISION_POLICY_RULES[i].id,
                          reason |-> DECISION_POLICY_RULES[i].outcome.reason,
                          originalAction |-> moderation.moderatedAction,
                          finalAction |-> DECISION_POLICY_RULES[i].outcome.action,
                          outcome |-> "rewrite"])])

\* the moderation result from what the loop leaves; a block returns nothing
ModerationResult(decision, moderation, decisionValidity) ==
  IF moderation.threw
  THEN [threw |-> TRUE, status |-> moderation.status, blockedBy |-> moderation.blockedBy,
        decision |-> NoDecision, decisionValidity |-> "", policyViolations |-> <<>>]
  ELSE [threw |-> FALSE, status |-> 0, blockedBy |-> "",
        decision |-> [action |-> moderation.moderatedAction,
                      reasoning |-> decision.reasoning,
                      targetTileId |-> moderation.moderatedTargetTileId],
        decisionValidity |-> decisionValidity,
        policyViolations |-> moderation.policyViolations]

\* the loop of applyDecisionGuardrails(decision, context)
Moderated(decision, context) ==
  GuardrailLoop(1, context,
                [threw |-> FALSE, status |-> 0, blockedBy |-> "",
                 moderatedAction |-> decision.action,
                 moderatedTargetTileId |-> decision.targetTileId,
                 policyViolations |-> <<>>])

applyDecisionGuardrailsAccepting(decision, context) ==
  ModerationResult(decision, Moderated(decision, context), "accepted")

applyDecisionGuardrails(decision, context) ==
  ModerationResult(decision, Moderated(decision, context),
                   IF Len(Moderated(decision, context).policyViolations) > 0
                   THEN "rewritten" ELSE "accepted")

\* the decisions and the contexts of the calls: every action with and
\* without a target, every role of the registry of the source, and the
\* minutes at the two ends of the quiet hours and of the day
GuardrailDecisions ==
  [action : VILLAGER_ACTIONS, reasoning : {"reasoning"}, targetTileId : {NoTile, "tile_0_0"}]

GuardrailContexts ==
  [role : {"farmer", "merchant", "builder", "fisher", "caretaker"},
   worldTime : [minuteOfDay : {0, 359, 360, 720, 1319, 1320, MINUTES_PER_DAY - 1}]]

NoModeration ==
  [threw |-> FALSE, status |-> 0, blockedBy |-> "", decision |-> NoDecision,
   decisionValidity |-> "", policyViolations |-> <<>>]

InitGuardrails ==
  /\ InitPage
  /\ routeCache = <<>>
  /\ maxCachedRoutes = NoCapacity
  /\ lastCall \in [decision : GuardrailDecisions, context : GuardrailContexts,
                    called : {FALSE}, result : {NoModeration}]
  /\ useOrder = <<>>
  /\ storedSnapshot = NoSnapshot
  /\ resets = 0
  /\ timerTicks = 0
  /\ windowResponses = 0

\* applyDecisionGuardrails(decision, request.context)
ApplyGuardrailsCall ==
  /\ ~lastCall.called
  /\ lastCall' = [lastCall EXCEPT
                    !.called = TRUE,
                    !.result = applyDecisionGuardrails(lastCall.decision, lastCall.context)]
  /\ UNCHANGED <<routeCache, maxCachedRoutes, useOrder, pageVars, storedSnapshot, resets,
                 timerTicks, windowResponses, obsVars>>

NextGuardrails == ApplyGuardrailsCall

SpecGuardrails == InitGuardrails /\ [][NextGuardrails]_vars

\* C18: for a context whose role is not merchant, a decision with the action
\* shop is never returned: the guardrail throws the policy error of status
\* 422 at any minute of the day, the quiet hours included.
C18_NonMerchantShopBlocked ==
  (lastCall.called /\ lastCall.context.role # "merchant" /\ lastCall.decision.action = "shop")
    => /\ lastCall.result.threw
       /\ lastCall.result.status = 422
       /\ lastCall.result.blockedBy = "role-restriction-shop"
       /\ lastCall.result.decision = NoDecision

\* a farmer's shop decision in the quiet hours, blocked
C18_Witness ==
  /\ lastCall.called
  /\ lastCall.context.role = "farmer"
  /\ lastCall.decision.action = "shop"
  /\ lastCall.context.worldTime.minuteOfDay = 1320
  /\ lastCall.result.threw

\* C19: for a context whose role is not farmer, a decision with the action
\* farm is returned with the action observe, no target tile and the
\* reasoning it had, with one violation recorded (originalAction farm,
\* finalAction observe, outcome rewrite) and decisionValidity rewritten.
C19_NonFarmerFarmRewritten ==
  (lastCall.called /\ lastCall.context.role # "farmer" /\ lastCall.decision.action = "farm")
    => /\ ~lastCall.result.threw
       /\ lastCall.result.decision.action = "observe"
       /\ lastCall.result.decision.targetTileId = NoTile
       /\ lastCall.result.decision.reasoning = lastCall.decision.reasoning
       /\ Len(lastCall.result.policyViolations) = 1
       /\ lastCall.result.policyViolations[1].policyId = "role-restriction-farm"
       /\ lastCall.result.policyViolations[1].originalAction = "farm"
       /\ lastCall.result.policyViolations[1].finalAction = "observe"
       /\ lastCall.result.policyViolations[1].outcome = "rewrite"
       /\ lastCall.result.decisionValidity = "rewritten"

\* a merchant's farm decision with a target tile, rewritten
C19_Witness ==
  /\ lastCall.called
  /\ lastCall.context.role = "merchant"
  /\ lastCall.decision.action = "farm"
  /\ lastCall.decision.targetTileId # NoTile
  /\ lastCall.result.decision.action = "observe"

\* C20: the rules are evaluated in the order of their declaration, each
\* against the action as the rules before it left it: a rule rewrites
\* exactly when it matches that action and holds of the context, each rewrite
\* replaces the action and appends one violation, the rules after a rewrite
\* are still evaluated, a matching block rule throws, and decisionValidity is
\* accepted exactly when no violation is recorded and rewritten otherwise.
C20_RulesInDeclaredOrder ==
  lastCall.called =>
    LET result == lastCall.result
        violations == result.policyViolations
        RuleIndex(id) == CHOOSE i \in DOMAIN DECISION_POLICY_RULES : DECISION_POLICY_RULES[i].id = id
        \* the action rule i is evaluated against: the finalAction of the last
        \* violation of a rule before it, or the action of the decision
        Earlier(i) == {k \in DOMAIN violations : RuleIndex(violations[k].policyId) < i}
        ActionAt(i) == IF Earlier(i) = {} THEN lastCall.decision.action
                       ELSE violations[CHOOSE k \in Earlier(i) : \A j \in Earlier(i) : j <= k].finalAction
        Matches(i) == /\ Includes(DECISION_POLICY_RULES[i].disallowedActions, ActionAt(i))
                      /\ evaluate(DECISION_POLICY_RULES[i], lastCall.context)
        Blocks(i) == Matches(i) /\ DECISION_POLICY_RULES[i].outcome.type = "block"
        Rewrites(i) == Matches(i) /\ DECISION_POLICY_RULES[i].outcome.type = "rewrite"
    IN IF result.threw
       THEN \E i \in DOMAIN DECISION_POLICY_RULES :
              /\ Blocks(i)
              /\ result.blockedBy = DECISION_POLICY_RULES[i].id
              /\ \A j \in 1..(i - 1) : ~Blocks(j)
       ELSE /\ \A i \in DOMAIN DECISION_POLICY_RULES : ~Blocks(i)
            /\ \A k \in DOMAIN violations :
                 /\ Rewrites(RuleIndex(violations[k].policyId))
                 /\ violations[k].originalAction = ActionAt(RuleIndex(violations[k].policyId))
                 /\ violations[k].finalAction
                      = DECISION_POLICY_RULES[RuleIndex(violations[k].policyId)].outcome.action
                 /\ violations[k].outcome = "rewrite"
            /\ \A k \in 1..(Len(violations) - 1) :
                 RuleIndex(violations[k].policyId) < RuleIndex(violations[k + 1].policyId)
            /\ \A i \in DOMAIN DECISION_POLICY_RULES :
                 Rewrites(i) => \E k \in DOMAIN violations :
                                  violations[k].policyId = DECISION_POLICY_RULES[i].id
            /\ result.decision.action = ActionAt(Len(DECISION_POLICY_RULES) + 1)
            /\ result.decisionValidity = IF violations = <<>> THEN "accepted" ELSE "rewritten"

\* a merchant's shop decision in the quiet hours: the first two rules pass it
\* and the third rewrites it
C20_Witness ==
  /\ lastCall.called
  /\ lastCall.context.role = "merchant"
  /\ lastCall.decision.action = "shop"
  /\ lastCall.context.worldTime.minuteOfDay = 359
  /\ Len(lastCall.result.policyViolations) = 1
  /\ lastCall.result.policyViolations[1].policyId = "quiet-hours-social"
  /\ lastCall.result.decisionValidity = "rewritten"

\***************************************************************************
\* One decision request on its own: issued for an agent by the replan effect
\* (src/unnamed/part_002, lines 779-892), answered by POST /api/npc-decision
\* (src/unnamed/part_001), whose provider passes the decision it proposes
\* through applyDecisionGuardrails, and handled by the then or the catch
\* handler of the fetch.  No tick passes between the issue and the handling.
\***************************************************************************

\* the tick at which the request is issued
DecisionRequestTick == 3

\* the agent's runtime entry when the request is issued: a fresh one, and one
\* with a plan, a major event, a memory and a path it is part-way along
DecisionRequestEntries ==
  { createInitialVillagerRuntime(listVillagers)[1],
    [movement |-> [currentTileId |-> "tile_1_0", path |-> <<"tile_0_0", "tile_1_0", "tile_2_0">>,
                   pathIndex |-> 1, lastProcessedTick |-> 2, arrivedAtTick |-> Undefined],
     targetTileId |-> "tile_2_0",
     npcState |-> "moving",
     actionExecution |-> NoExecution,
     replan |-> [lastPlanTick |-> 0, lastPlanSignature |-> <<"signature", 0>>,
                 lastMajorEventTick |-> 1,
                 intent |-> [action |-> "farm", targetTileId |-> "tile_2_0",
                             reasoning |-> "reasoning", plannedAtTick |-> 0],
                 intentUpdatedAtTick |-> 0],
     memoryStore |-> [villagerId |-> "villager_ava",
                      shortTerm |-> << [id |-> <<"memory", "villager_ava", 1, "event">>,
                                        villagerId |-> "villager_ava", type |-> "interaction",
                                        summary |-> "Interacted with Ben near tile_1_0.",
                                        source |-> [type |-> "villager", actorVillagerId |-> "villager_ben",
                                                    eventId |-> "event"],
                                        createdAt |-> toSimulationTime(1, DAY_LENGTH_TICKS),
                                        importance |-> 550, bucket |-> "short_term",
                                        expiresAfterTicks |-> INTERACTION_MEMORY_EXPIRATION_TICKS] >>,
                      longTerm |-> <<>>]] }

NoResponse == [ok |-> FALSE, status |-> 0, decision |-> NoDecision]

\* POST /api/npc-decision: 200 with the provider's result, or the status of
\* the LlmAdapterApiError the provider throws
DecisionEndpoint(proposal, context) ==
  IF applyDecisionGuardrails(proposal, context).threw
  THEN [ok |-> FALSE, status |-> applyDecisionGuardrails(proposal, context).status,
        decision |-> NoDecision]
  ELSE [ok |-> TRUE, status |-> 200,
        decision |-> applyDecisionGuardrails(proposal, context).decision]

InitDecisionRequest ==
  /\ InitPage
  /\ routeCache = <<>>
  /\ maxCachedRoutes = NoCapacity
  /\ lastCall \in [entry : DecisionRequestEntries,
                    request : [tick : {DecisionRequestTick},
                               promptSignature : {<<"signature", DecisionRequestTick>>}],
                    context : GuardrailContexts,
                    proposal : GuardrailDecisions,
                    phase : {"issued"},
                    response : {NoResponse},
                    handled : DecisionRequestEntries]
  /\ lastCall.handled = lastCall.entry
  /\ useOrder = <<>>
  /\ storedSnapshot = NoSnapshot
  /\ resets = 0
  /\ timerTicks = 0
  /\ windowResponses = 0

\* the endpoint answers the request
DecisionEndpointAnswers ==
  /\ lastCall.phase = "issued"
  /\ lastCall' = [lastCall EXCEPT
                    !.phase = "answered",
                    !.response = DecisionEndpoint(lastCall.proposal, lastCall.context)]
  /\ UNCHANGED <<routeCache, maxCachedRoutes, useOrder, pageVars, storedSnapshot, resets,
                 timerTicks, windowResponses, obsVars>>

\* the then handler (response.ok) or the catch handler updates the entry
DecisionResponseHandled ==
  /\ lastCall.phase = "answered"
  /\ lastCall' = [lastCall EXCEPT
                    !.phase = "handled",
                    !.handled = IF lastCall.response.ok
                                THEN SucceededReplan(lastCall.entry, lastCall.request,
                                                     lastCall.response.decision)
                                ELSE FailedReplan(lastCall.entry, lastCall.request)]
  /\ UNCHANGED <<routeCache, maxCachedRoutes, useOrder, pageVars, storedSnapshot, resets,
                 timerTicks, windowResponses, obsVars>>

NextDecisionRequest == DecisionEndpointAnswers \/ DecisionResponseHandled

SpecDecisionRequest == InitDecisionRequest /\ [][NextDecisionRequest]_vars

\* the request was blocked by the guardrail and its failure has been handled
PolicyBlockedHandled ==
  /\ lastCall.phase = "handled"
  /\ ~lastCall.response.ok
  /\ lastCall.response.status = 422

\* C21 as stated: when the guardrail blocks a decision nothing of the agent
\* is changed: its intent, intentUpdatedAtTick, lastPlanTick,
\* lastPlanSignature, lastMajorEventTick, memory store, movement and target
\* are after the handling of the failure what they were at the issue.
C21_BlockedMutatesNothing ==
  PolicyBlockedHandled =>
    /\ lastCall.handled.replan = lastCall.entry.replan
    /\ lastCall.handled.memoryStore = lastCall.entry.memoryStore
    /\ lastCall.handled.movement = lastCall.entry.movement
    /\ lastCall.handled.targetTileId = lastCall.entry.targetTileId

\* what the handling of a blocked decision does change: lastPlanTick and
\* lastPlanSignature are advanced to the tick and the signature of the
\* request, as for any other failure; the agent's intent, intentUpdatedAtTick,
\* lastMajorEventTick, memory store, movement and target stay what they were.
BlockedAdvancesOnlyLastPlan ==
  PolicyBlockedHandled =>
    /\ lastCall.handled.replan.intent = lastCall.entry.replan.intent
    /\ lastCall.handled.replan.intentUpdatedAtTick = lastCall.entry.replan.intentUpdatedAtTick
    /\ lastCall.handled.replan.lastMajorEventTick = lastCall.entry.replan.lastMajorEventTick
    /\ lastCall.handled.memoryStore = lastCall.entry.memoryStore
    /\ lastCall.handled.movement = lastCall.entry.movement
    /\ lastCall.handled.targetTileId = lastCall.entry.targetTileId
    /\ lastCall.handled.replan.lastPlanTick = lastCall.request.tick
    /\ lastCall.handled.replan.lastPlanSignature = lastCall.request.promptSignature

\***************************************************************************
\* The snapshot store on its own (src/src/app/api/simulation-snapshot/route.ts)
\* with the hydration effect of the page (src/unnamed/part_002, lines
\* 449-501): the file latest.json, written by POST, read by GET, and the one
\* read the page makes when it mounts.  The file may hold what an earlier
\* version of the program or another writer left there.
\***************************************************************************

\* the object with one property set to a value, or removed by JUndefined
WithProperty(object, key, value) ==
  JObject([k \in DOMAIN object.v \cup {key} |-> IF k = key THEN value ELSE object.v[k]])

NoFile == [t |-> "none"]

\* a value with the value at a path of property names and array positions
\* replaced (removed, for JUndefined)
RECURSIVE SetPath(_, _, _)
SetPath(value, path, new) ==
  IF Len(path) = 0 THEN new
  ELSE IF value.t = "array"
  THEN JArray([value.v EXCEPT ![Head(path)] = SetPath(@, Tail(path), new)])
  ELSE WithProperty(value, Head(path), SetPath(Get(value, Head(path)), Tail(path), new))

\* the path leads to a value in the object
RECURSIVE HasPath(_, _)
HasPath(value, path) ==
  IF Len(path) = 0 THEN value # JUndefined
  ELSE IF value.t = "array"
  THEN Head(path) \in DOMAIN value.v /\ HasPath(value.v[Head(path)], Tail(path))
  ELSE value.t = "object" /\ Head(path) \in DOMAIN value.v
       /\ HasPath(value.v[Head(path)], Tail(path))

\* snapshots of the loop: the one of the first tick, and one at tick 5 of an
\* agent with a plan, an intent and a memory
LoopSnapshots ==
  { EarlierSnapshot,
    createWorldSnapshot(5, toSimulationTime(5, DAY_LENGTH_TICKS).day,
                        toSimulationTime(5, DAY_LENGTH_TICKS).minuteOfDay,
                        [i \in VillagerIndexes |->
                           IF i = 1
                           THEN CHOOSE entry \in DecisionRequestEntries : entry.replan.intent # NoIntent
                           ELSE createInitialVillagerRuntime(listVillagers)[i]]) }

\* one thing wrong with a snapshot: where, what is there instead, and which
\* part of the snapshot it spoils
WorldDefects ==
  { [part |-> "version", path |-> <<"version">>, value |-> JNumber(WORLD_SNAPSHOT_VERSION + 1)],
    [part |-> "version", path |-> <<"version">>, value |-> JUndefined],
    [part |-> "world", path |-> <<"world", "minuteOfDay">>, value |-> JNumber(MINUTES_PER_DAY)],
    [part |-> "world", path |-> <<"world", "day">>, value |-> JNumber(0)],
    [part |-> "world", path |-> <<"world", "tick">>, value |-> JNumber(-1)],
    [part |-> "world", path |-> <<"world", "tick">>, value |-> JThousandths(1500)],
    [part |-> "world", path |-> <<"world">>, value |-> JNull] }

RecordDefects ==
  { [path |-> <<"npcState">>, value |-> JString("flying")],
    [path |-> <<"currentTileId">>, value |-> JString("tile_a_b")],
    [path |-> <<"targetTileId">>, value |-> JUndefined],
    [path |-> <<"villagerId">>, value |-> JString("ava")],
    [path |-> <<"memoryStore", "shortTerm">>, value |-> JNull],
    [path |-> <<"memoryStore", "shortTerm", 1, "bucket">>, value |-> JString("long_term")],
    [path |-> <<"memoryStore", "shortTerm", 1, "importance">>, value |-> JThousandths(1500)],
    [path |-> <<"memoryStore", "shortTerm", 1, "createdAt", "day">>, value |-> JNumber(0)],
    [path |-> <<"replan">>, value |-> JUndefined],
    [path |-> <<"replan", "lastPlanTick">>, value |-> JString("0")],
    [path |-> <<"replan", "intent", "reasoning">>, value |-> JUndefined],
    [path |-> <<"replan", "intent", "action">>, value |-> JString("fly")] }

SnapshotDefects ==
  WorldDefects \cup
  { [part |-> "record", path |-> <<"npcs", k>> \o defect.path, value |-> defect.value] :
      k \in VillagerIndexes, defect \in RecordDefects }

NoDefect == [part |-> "none", path |-> <<>>, value |-> JUndefined]

\* what a client may send in a memory record that the data model does not
\* have: a type that is none of the memory types, a creation time without
\* its tick or with a tick that is no integer
MemoryDeviations ==
  { [path |-> <<"type">>, value |-> JString("rumour")],
    [path |-> <<"createdAt", "tick">>, value |-> JUndefined],
    [path |-> <<"createdAt", "tick">>, value |-> JThousandths(1500)] }

\* the snapshots of the loop with a memory record that deviates
DeviatingSnapshots ==
  UNION { { SetPath(JSnapshot(snapshot),
                    <<"npcs", k, "memoryStore", "shortTerm", 1>> \o deviation.path,
                    deviation.value) :
              k \in {i \in VillagerIndexes :
                       HasPath(JSnapshot(snapshot),
                               <<"npcs", i, "memoryStore", "shortTerm", 1, "type">>)},
              deviation \in MemoryDeviations } :
          snapshot \in LoopSnapshots }

\* the snapshots of the loop as they are, each with one thing wrong that
\* the validators are to find (defect), and each with a deviating memory
SnapshotCandidates ==
  { [defect |-> NoDefect, value |-> JSnapshot(snapshot)] : snapshot \in LoopSnapshots } \cup
  { [defect |-> NoDefect, value |-> value] : value \in DeviatingSnapshots } \cup
  UNION { { [defect |-> defect,
             value |-> SetPath(JSnapshot(snapshot), defect.path, defect.value)] :
             defect \in {d \in SnapshotDefects : HasPath(JSnapshot(snapshot), d.path)} } :
          snapshot \in LoopSnapshots }

NoStoreCall ==
  [op |-> "", defect |-> NoDefect, stored |-> NoFile, parsed |-> JUndefined,
   response |-> [status |-> 0, snapshot |-> JUndefined]]

InitSnapshotStore ==
  /\ InitPage
  /\ routeCache = <<>>
  /\ maxCachedRoutes = NoCapacity
  /\ lastCall = NoStoreCall
  /\ useOrder = <<>>
  /\ storedSnapshot \in {NoFile} \cup {candidate.value : candidate \in SnapshotCandidates}
  /\ resets = 0
  /\ timerTicks = 0
  /\ windowResponses = 0

\* POST: 400 for a body without a valid snapshot, else the parsed snapshot is
\* written to the file
PostSnapshot(candidate) ==
  /\ lastCall' = [op |-> "POST", defect |-> candidate.defect, stored |-> storedSnapshot,
                  parsed |-> parseWorldSnapshot(candidate.value),
                  response |-> [status |-> IF parseWorldSnapshot(candidate.value) = JUndefined
                                           THEN 400 ELSE 200,
                                snapshot |-> JUndefined]]
  /\ storedSnapshot' = IF parseWorldSnapshot(candidate.value) = JUndefined
                       THEN storedSnapshot ELSE parseWorldSnapshot(candidate.value)
  /\ UNCHANGED <<routeCache, maxCachedRoutes, useOrder, pageVars, resets, timerTicks,
                 windowResponses, obsVars>>

\* GET: {snapshot: null} when there is no file, 500 when the file does not
\* parse to a snapshot, else the snapshot
GetSnapshot(stored) ==
  IF stored = NoFile THEN [status |-> 200, snapshot |-> JNull]
  ELSE IF parseWorldSnapshot(stored) = JUndefined THEN [status |-> 500, snapshot |-> JUndefined]
  ELSE [status |-> 200, snapshot |-> parseWorldSnapshot(stored)]

\* the snapshot the first then handler of the hydration effect passes on:
\* it throws when the response is not ok
HydrationSnapshot(response) ==
  IF response.status # 200 THEN JUndefined ELSE parseWorldSnapshot(response.snapshot)

\* the hydration effect of the mount: the read and its handlers
HydratePage ==
  /\ hydration = "idle"
  /\ hydration' = "done"
  /\ hydrationFinished' = TRUE
  /\ lastCall' = [op |-> "GET", defect |-> NoDefect, stored |-> storedSnapshot,
                  parsed |-> HydrationSnapshot(GetSnapshot(storedSnapshot)),
                  response |-> GetSnapshot(storedSnapshot)]
  /\ IF HydrationSnapshot(GetSnapshot(storedSnapshot)) = JUndefined
     THEN UNCHANGED <<tick, villagerRuntime, runtimeUpdated>>
     ELSE /\ tick' = Get(Get(HydrationSnapshot(GetSnapshot(storedSnapshot)), "world"), "tick").v
          /\ villagerRuntime' =
               HydratedRuntime(SnapshotOf(HydrationSnapshot(GetSnapshot(storedSnapshot))))
          /\ runtimeUpdated' = TRUE
  /\ UNCHANGED <<routeCache, maxCachedRoutes, useOrder, resourceInventory, inflightReplans,
                 interactionCooldown, completedActionTick, latestPersistedTick, requests,
                 rendered, pendingEffects, storedSnapshot, resets, timerTicks, windowResponses,
                 obsVars>>

NextSnapshotStore ==
  \/ \E candidate \in SnapshotCandidates : PostSnapshot(candidate)
  \/ HydratePage

SpecSnapshotStore == InitSnapshotStore /\ [][NextSnapshotStore]_vars

\* C23: parseWorldSnapshot returns no snapshot at all for a candidate whose
\* version is not the current one, whose world time is invalid, or one of
\* whose per-agent records fails validation, whatever the other records are:
\* never a snapshot with the invalid record dropped or repaired.  A snapshot
\* of the loop with nothing wrong is returned.
C23_DecodingAllOrNothing ==
  lastCall.op = "POST" =>
    /\ lastCall.defect # NoDefect => lastCall.parsed = JUndefined
    /\ lastCall.defect = NoDefect => lastCall.parsed # JUndefined

\* the record of the second agent is invalid and the first one's is valid
C23_Witness ==
  /\ lastCall.op = "POST"
  /\ lastCall.defect.part = "record"
  /\ lastCall.defect.path[2] = 2
  /\ lastCall.defect.path[3] = "replan"
  /\ lastCall.parsed = JUndefined

\* the memory records of a parsed snapshot
ParsedMemories(parsed) ==
  UNION { { Get(Get(Get(parsed, "npcs").v[k], "memoryStore"), bucket).v[p] :
              p \in DOMAIN Get(Get(Get(parsed, "npcs").v[k], "memoryStore"), bucket).v } :
          k \in DOMAIN Get(parsed, "npcs").v, bucket \in {"shortTerm", "longTerm"} }

\* C36: every memory record of a snapshot parseWorldSnapshot returns has one
\* of the memory types as its type, and a creation time whose tick, day and
\* minute of the day are integers.
C36_AcceptedMemoriesMatchDataModel ==
  lastCall.parsed # JUndefined =>
    \A memory \in ParsedMemories(lastCall.parsed) :
      /\ IsString(Get(memory, "type"))
      /\ Get(memory, "type").v \in MEMORY_TYPES
      /\ IsInteger(Get(Get(memory, "createdAt"), "tick"))
      /\ IsInteger(Get(Get(memory, "createdAt"), "day"))
      /\ IsInteger(Get(Get(memory, "createdAt"), "minuteOfDay"))

\* a memory without a creation tick is restored into the runtime of the page
MemoryWithoutTickRestored ==
  /\ lastCall.op = "GET"
  /\ \E i \in VillagerIndexes :
       \E p \in DOMAIN villagerRuntime[i].memoryStore.shortTerm :
         villagerRuntime[i].memoryStore.shortTerm[p].createdAt.tick = Undefined

\* C24: a stored snapshot that fails validation is treated as absent on
\* read: the read reports no snapshot, as it does when nothing is stored, and
\* the page keeps its initial tick and runtime; the write of an invalid
\* snapshot is answered 400 and leaves the stored snapshot as it was.
C24_InvalidSnapshotAbsentOnRead ==
  /\ (lastCall.op = "GET" /\ lastCall.stored # NoFile
        /\ parseWorldSnapshot(lastCall.stored) = JUndefined)
       => /\ lastCall.response = GetSnapshot(NoFile)
          /\ tick = 0
          /\ villagerRuntime = createInitialVillagerRuntime(listVillagers)
          /\ hydrationFinished
  /\ (lastCall.op = "POST" /\ lastCall.defect # NoDefect)
       => /\ lastCall.response.status = 400
          /\ storedSnapshot = lastCall.stored

\* what holds of the read of an invalid stored snapshot: the endpoint answers
\* 500, and the page keeps its initial tick and runtime and finishes the
\* hydration
InvalidSnapshotStartsFresh ==
  (lastCall.op = "GET" /\ lastCall.stored # NoFile
     /\ parseWorldSnapshot(lastCall.stored) = JUndefined)
    => /\ lastCall.response.status = 500
       /\ tick = 0
       /\ villagerRuntime = createInitialVillagerRuntime(listVillagers)
       /\ hydrationFinished

\* what holds of the write of an invalid snapshot
InvalidSnapshotWriteRejected ==
  (lastCall.op = "POST" /\ lastCall.defect # NoDefect)
    => /\ lastCall.response.status = 400
       /\ storedSnapshot = lastCall.stored

\* a valid stored snapshot is restored by the page
ValidSnapshotRestored ==
  /\ lastCall.op = "GET"
  /\ lastCall.response.status = 200
  /\ tick = 5
  /\ villagerRuntime[1].replan.intent # NoIntent

\***************************************************************************
\* The memory summary of the context assembler on its own
\* (src/unnamed/part_004): the memories of a store are ranked, then
\* summarized within a token budget.
\***************************************************************************

\* how many memories the store holds
MaxMemories == 3

\* summaries of 4, 8 and 724 characters: 1, 2 and 181 tokens
SummaryLengths == {4, 8, 724}

\* importance (in thousandths) and creation tick of the memories
MemoryPriorities ==
  { [importance |-> 900, tick |-> 1], [importance |-> 300, tick |-> 1],
    [importance |-> 300, tick |-> 2] }

\* memoryTokenBudget: none, a small one, and the default
TokenBudgets == {0, 3, DEFAULT_MEMORY_TOKEN_BUDGET}

\* the k-th memory of a store, with the fields the assembler reads
SummaryMemory(k, priority, length) ==
  [id |-> k, type |-> "interaction", summary |-> [c \in 1..length |-> "x"],
   importance |-> priority.importance, createdAt |-> [tick |-> priority.tick]]

SummaryMemories(n) ==
  {[k \in 1..n |-> SummaryMemory(k, priorities[k], lengths[k])] :
     priorities \in [1..n -> MemoryPriorities], lengths \in [1..n -> SummaryLengths]}

\* the stores: up to MaxMemories memories, the first ones short-term and the
\* others long-term
SummaryStores ==
  UNION {UNION {{[shortTerm |-> SubSeq(memories, 1, short),
                  longTerm |-> SubSeq(memories, short + 1, n)] : memories \in SummaryMemories(n)} :
                  short \in 0..n} : n \in 0..MaxMemories}

InitSummary ==
  /\ InitPage
  /\ routeCache = <<>>
  /\ maxCachedRoutes = NoCapacity
  /\ lastCall \in [op : {""}, memoryStore : SummaryStores, memoryTokenBudget : TokenBudgets,
                    rankedMemories : {<<>>}, memorySummary : {<<>>}]
  /\ useOrder = <<>>
  /\ storedSnapshot = NoSnapshot
  /\ resets = 0
  /\ timerTicks = 0
  /\ windowResponses = 0

\* const rankedMemories = rankMemoriesByPriority(input.memoryStore)
RankMemoriesCall ==
  /\ lastCall.op = ""
  /\ lastCall' = [lastCall EXCEPT !.op = "rank",
                                  !.rankedMemories = rankMemoriesByPriority(lastCall.memoryStore)]
  /\ UNCHANGED <<routeCache, maxCachedRoutes, useOrder, pageVars, storedSnapshot, resets,
                 timerTicks, windowResponses, obsVars>>

\* const memorySummary = summarizeTopMemories(rankedMemories, memoryTokenBudget)
SummarizeMemoriesCall ==
  /\ lastCall.op = "rank"
  /\ lastCall' = [lastCall EXCEPT !.op = "summarize",
                                  !.memorySummary =
                                     summarizeTopMemories(lastCall.rankedMemories,
                                                          lastCall.memoryTokenBudget)]
  /\ UNCHANGED <<routeCache, maxCachedRoutes, useOrder, pageVars, storedSnapshot, resets,
                 timerTicks, windowResponses, obsVars>>

NextSummary ==
  \/ RankMemoriesCall
  \/ SummarizeMemoriesCall

SpecSummary == InitSummary /\ [][NextSummary]_vars

\* the estimated cost of the memory at position i of the ranked memories
RankedCost(i) == estimateTokenCost(Len(lastCall.rankedMemories[i].summary))

\* the positions up to i whose entry alone does not exceed the budget
FittingUpTo(i) == {j \in 1..i : RankedCost(j) <= lastCall.memoryTokenBudget}

RECURSIVE RankedCostOf(_)
RankedCostOf(positions) ==
  IF positions = {} THEN 0
  ELSE LET i == CHOOSE i \in positions : TRUE
       IN RankedCost(i) + RankedCostOf(positions \ {i})

\* the positions the scan includes: those that fit alone and at or before
\* which no entry that fits alone overflows the budget
IncludedPositions ==
  {i \in FittingUpTo(Len(lastCall.rankedMemories)) :
     \A j \in FittingUpTo(i) : RankedCostOf(FittingUpTo(j)) <= lastCall.memoryTokenBudget}

\* C33: the ranked memories are the store's memories ordered by importance
\* descending, ties by creation tick descending; the summary holds, in rank
\* order, the entries that do not exceed the budget alone up to the first
\* such entry that would overflow what is left of the budget, an entry that
\* exceeds the budget alone being passed over; the estimated costs of the
\* entries of the summary add up to the budget at most.
C33_SummaryWithinBudget ==
  /\ lastCall.op # "" =>
       LET ranked == lastCall.rankedMemories
           stored == lastCall.memoryStore.shortTerm \o lastCall.memoryStore.longTerm
       IN /\ Len(ranked) = Len(stored)
          /\ {ranked[i] : i \in DOMAIN ranked} = {stored[i] : i \in DOMAIN stored}
          /\ \A i, j \in DOMAIN ranked :
               i < j => \/ ranked[i].importance > ranked[j].importance
                        \/ /\ ranked[i].importance = ranked[j].importance
                           /\ ranked[i].createdAt.tick >= ranked[j].createdAt.tick
  /\ lastCall.op = "summarize" =>
       LET ranked == lastCall.rankedMemories
           summary == lastCall.memorySummary
       IN /\ Len(summary) = Cardinality(IncludedPositions)
          /\ \A p \in DOMAIN summary :
               \E i \in IncludedPositions :
                 /\ Cardinality({j \in IncludedPositions : j <= i}) = p
                 /\ summary[p] = [id |-> ranked[i].id, type |-> ranked[i].type,
                                  importance |-> ranked[i].importance,
                                  createdAtTick |-> ranked[i].createdAt.tick]
          /\ RankedCostOf(IncludedPositions) <= lastCall.memoryTokenBudget

\* a summary for which an entry that exceeds the budget alone is passed over,
\* a later entry is included, and the scan stops at an entry that overflows
\* what is left; two of the entries rank by their creation tick
C33_Witness ==
  /\ lastCall.op = "summarize"
  /\ lastCall.memoryTokenBudget > 0
  /\ \E i, j, k \in DOMAIN lastCall.rankedMemories :
       /\ i < j /\ j < k
       /\ RankedCost(i) > lastCall.memoryTokenBudget
       /\ j \in IncludedPositions
       /\ RankedCost(k) <= lastCall.memoryTokenBudget
       /\ k \notin IncludedPositions
       /\ lastCall.rankedMemories[j].importance = lastCall.rankedMemories[k].importance
       /\ lastCall.rankedMemories[j].createdAt.tick > lastCall.rankedMemories[k].createdAt.tick
       /\ Len(lastCall.memoryStore.shortTerm) > 0
       /\ Len(lastCall.memoryStore.longTerm) > 0

\***************************************************************************
\* The schedule functions on their own (src/src/simulation/schedule.ts): a
\* schedule is created from a villager's base schedule, then resolved at a
\* minute of the day.
\***************************************************************************

MaxScheduleSlots == 3

\* hours of the base schedules: out of range at both ends, the first and the
\* last hour of the day, and two in between
ScheduleHours == {-1, 0, 6, 12, 23, 24}

\* the action and the target of the slot at a position of the base schedule
ScheduleSlot(position, hour) ==
  [hour |-> hour,
   action |-> <<"farm", "rest", "chat", "shop">>[((position - 1) % 4) + 1],
   targetTileId |-> TileIdOf(position, position)]

\* villagers with base schedules of up to MaxScheduleSlots slots in any
\* order of hours, repeated hours included
ScheduleVillagers ==
  { [id |-> VILLAGER_REGISTRY[1].id,
     baseSchedule |-> [i \in 1..n |-> ScheduleSlot(i, hours[i])]] :
      n \in 0..0, hours \in {<<>>} } \cup
  UNION { { [id |-> VILLAGER_REGISTRY[1].id,
             baseSchedule |-> [i \in 1..n |-> ScheduleSlot(i, hours[i])]] :
             hours \in [1..n -> ScheduleHours] } : n \in 1..MaxScheduleSlots }

NoSchedule == [villagerId |-> VILLAGER_REGISTRY[1].id, entries |-> <<>>]

NoTask == [villagerId |-> VILLAGER_REGISTRY[1].id, action |-> "", targetTileId |-> NoTile,
           source |-> ""]

InitSchedule ==
  /\ InitPage
  /\ routeCache = <<>>
  /\ maxCachedRoutes = NoCapacity
  /\ lastCall \in [op : {""}, villager : ScheduleVillagers, thrown : {FALSE},
                    schedule : {NoSchedule}, minuteOfDay : 0..(MINUTES_PER_DAY - 1),
                    task : {NoTask}]
  /\ useOrder = <<>>
  /\ storedSnapshot = NoSnapshot
  /\ resets = 0
  /\ timerTicks = 0
  /\ windowResponses = 0

CreateScheduleCall ==
  /\ lastCall.op = ""
  /\ lastCall' = [lastCall EXCEPT
                    !.op = "create",
                    !.thrown = createVillagerDailyScheduleThrows(lastCall.villager),
                    !.schedule = IF createVillagerDailyScheduleThrows(lastCall.villager)
                                 THEN NoSchedule
                                 ELSE createVillagerDailySchedule(lastCall.villager)]
  /\ UNCHANGED <<routeCache, maxCachedRoutes, useOrder, pageVars, storedSnapshot, resets,
                 timerTicks, windowResponses, obsVars>>

ResolveTaskCall ==
  /\ lastCall.op = "create"
  /\ ~lastCall.thrown
  /\ lastCall' = [lastCall EXCEPT
                    !.op = "resolve",
                    !.task = resolveActiveVillagerTask(
                               lastCall.schedule,
                               [tick |-> 0, day |-> 1, minuteOfDay |-> lastCall.minuteOfDay])]
  /\ UNCHANGED <<routeCache, maxCachedRoutes, useOrder, pageVars, storedSnapshot, resets,
                 timerTicks, windowResponses, obsVars>>

NextSchedule ==
  \/ CreateScheduleCall
  \/ ResolveTaskCall

SpecSchedule == InitSchedule /\ [][NextSchedule]_vars

\* the slots of the base schedule that have started by the minute
StartedSlots(baseSchedule, minuteOfDay) ==
  {i \in DOMAIN baseSchedule : baseSchedule[i].hour * MINUTES_PER_HOUR <= minuteOfDay}

\* C25: createVillagerDailySchedule fails for a base schedule two of whose
\* slots share a start minute; for every schedule it returns and every
\* minute of the day, resolveActiveVillagerTask returns the slot with the
\* greatest start minute at or before that minute, with source schedule, or,
\* when no slot has started, the idle task: observe, no target, source idle.
C25_ActiveTaskIsLatestStarted ==
  /\ lastCall.op # ""
       => ((\E i, j \in DOMAIN lastCall.villager.baseSchedule :
              i # j /\ lastCall.villager.baseSchedule[i].hour
                         = lastCall.villager.baseSchedule[j].hour)
            => lastCall.thrown)
  /\ lastCall.op = "resolve"
       => LET slots == lastCall.villager.baseSchedule
              started == StartedSlots(slots, lastCall.minuteOfDay)
          IN IF started = {}
             THEN lastCall.task = [villagerId |-> lastCall.villager.id, action |-> "observe",
                                   targetTileId |-> NoTile, source |-> "idle"]
             ELSE \E i \in started :
                    /\ \A j \in started : slots[j].hour <= slots[i].hour
                    /\ lastCall.task = [villagerId |-> lastCall.villager.id,
                                        action |-> slots[i].action,
                                        targetTileId |-> slots[i].targetTileId,
                                        source |-> "schedule"]

\* a base schedule given out of order, resolved between its second and its
\* last start minute
C25_Witness ==
  /\ lastCall.op = "resolve"
  /\ Len(lastCall.villager.baseSchedule) = 3
  /\ lastCall.villager.baseSchedule[1].hour = 23
  /\ lastCall.villager.baseSchedule[2].hour = 0
  /\ lastCall.villager.baseSchedule[3].hour = 12
  /\ lastCall.minuteOfDay = 1379
  /\ lastCall.task.action = "chat"
  /\ lastCall.task.source = "schedule"

\* no slot has started: the idle task
ScheduleIdleBeforeFirstSlot ==
  /\ lastCall.op = "resolve"
  /\ Len(lastCall.villager.baseSchedule) = 2
  /\ lastCall.minuteOfDay = 359
  /\ lastCall.task.source = "idle"

\***************************************************************************
\* One villager's pass of the tick effect on its own (src/unnamed/part_002,
\* lines 507-541): at every tick the schedule gives a task, the intent of the
\* runtime is applied to it, the planner plans, the movement advances and the
\* action execution is kept, begun or dropped.  The task of the schedule and
\* the intent are those of any schedule and any decision.  lastCall holds the
\* runtime, and of the last pass the tick, the tasks, the runtime and the
\* route cache before it, and the planner's result.
\***************************************************************************

\* the largest tick of a pass
MaxPassTick == 4

\* targets of tasks: two tiles four steps apart, the tree, and no tile of
\* the map
PassTasks ==
  { [villagerId |-> VILLAGER_REGISTRY[1].id, action |-> "farm", targetTileId |-> target,
     source |-> "schedule"] : target \in {"tile_0_1", "tile_2_1", "tile_1_1", OffMapTileId} } \cup
  { [villagerId |-> VILLAGER_REGISTRY[1].id, action |-> "walk", targetTileId |-> "tile_2_1",
     source |-> "schedule"],
    [villagerId |-> VILLAGER_REGISTRY[1].id, action |-> "rest", targetTileId |-> NoTile,
     source |-> "schedule"],
    [villagerId |-> VILLAGER_REGISTRY[1].id, action |-> "observe", targetTileId |-> NoTile,
     source |-> "idle"] }

\* no intent, and intents with and without a target, of actions with and
\* without a duration
PassIntents ==
  { NoIntent,
    [action |-> "shop", targetTileId |-> NoTile, reasoning |-> "reasoning", plannedAtTick |-> 0],
    [action |-> "observe", targetTileId |-> "tile_2_1", reasoning |-> "reasoning",
     plannedAtTick |-> 0],
    [action |-> "farm", targetTileId |-> "tile_0_0", reasoning |-> "reasoning",
     plannedAtTick |-> 0] }

NoPlanning ==
  [targetTileId |-> NoTile, requestedPath |-> FALSE,
   movement |-> createVillagerMovementComponent(VILLAGER_REGISTRY[1].spawnTileId, 0),
   npcState |-> "", cache |-> <<>>]

InitVillagerPass ==
  /\ InitPage
  /\ routeCache = <<>>
  /\ maxCachedRoutes = NoCapacity
  /\ lastCall = [tick |-> 0,
                 runtime |-> createInitialVillagerRuntime(listVillagers)[1],
                 before |-> createInitialVillagerRuntime(listVillagers)[1],
                 cacheBefore |-> <<>>,
                 activeTask |-> NoTask, plannedTask |-> NoTask,
                 planning |-> NoPlanning,
                 previous |-> NoPlanning]
  /\ useOrder = <<>>
  /\ storedSnapshot = NoSnapshot
  /\ resets = 0
  /\ timerTicks = 0
  /\ windowResponses = 0

\* the pass with the planner's result at hand
VillagerPassPlanned(activeTask, plannedTask, planning) ==
  /\ lastCall' = [tick |-> lastCall.tick + 1,
                  runtime |-> AdvancePlanned(lastCall.runtime, activeTask, plannedTask, planning,
                                             lastCall.tick + 1).runtime,
                  before |-> lastCall.runtime,
                  cacheBefore |-> routeCache,
                  activeTask |-> activeTask, plannedTask |-> plannedTask,
                  planning |-> planning,
                  previous |-> lastCall.planning]
  /\ routeCache' = planning.cache

\* the tick advances by one, the decision source may have set an intent, and
\* the body of current.map(...) runs for the villager
VillagerPass(activeTask, intent) ==
  /\ lastCall.tick < MaxPassTick
  /\ VillagerPassPlanned(
       activeTask, applyNpcIntentToTask(activeTask, intent),
       planVillagerMovementIntent(VILLAGER_REGISTRY[1], lastCall.runtime.movement,
                                  applyNpcIntentToTask(activeTask, intent),
                                  routeCache, maxCachedRoutes, lastCall.tick + 1,
                                  lastCall.runtime.targetTileId))
  /\ UNCHANGED <<maxCachedRoutes, useOrder, pageVars, storedSnapshot, resets, timerTicks,
                 windowResponses, obsVars>>

NextVillagerPass ==
  \E activeTask \in PassTasks, intent \in PassIntents : VillagerPass(activeTask, intent)

SpecVillagerPass == InitVillagerPass /\ [][NextVillagerPass]_vars

\* C26: the planner's target is the task's target if it has one, else the
\* villager's home tile for the rest action, else the last tile of the path
\* the agent is assigned: an agent part of the way along a path keeps its
\* destination when its task has no target and is not rest.
C26_FallbackIsPathDestination ==
  lastCall.tick > 0 =>
    lastCall.planning.targetTileId =
      IF lastCall.plannedTask.targetTileId # NoTile THEN lastCall.plannedTask.targetTileId
      ELSE IF lastCall.plannedTask.action = "rest" THEN VILLAGER_REGISTRY[1].homeTileId
      ELSE lastCall.before.movement.path[Len(lastCall.before.movement.path)]

\* C26 amended: the planner's target is the task's target if it has one, else
\* the villager's home tile for the rest action, else the tile the agent is
\* on: an agent part of the way along a path stops there when its task has no
\* target and is not rest.
C26_FallbackIsCurrentTile ==
  lastCall.tick > 0 =>
    /\ lastCall.planning.targetTileId =
         IF lastCall.plannedTask.targetTileId # NoTile THEN lastCall.plannedTask.targetTileId
         ELSE IF lastCall.plannedTask.action = "rest" THEN VILLAGER_REGISTRY[1].homeTileId
         ELSE lastCall.before.movement.currentTileId
    /\ (lastCall.plannedTask.targetTileId = NoTile /\ lastCall.plannedTask.action # "rest")
         => lastCall.runtime.movement.currentTileId = lastCall.before.movement.currentTileId

\* an agent part of the way along a path of three steps is given a task
\* without a target that is not rest
C26_Witness ==
  /\ lastCall.tick > 0
  /\ lastCall.plannedTask.targetTileId = NoTile
  /\ lastCall.plannedTask.action # "rest"
  /\ Len(lastCall.before.movement.path) = 4
  /\ lastCall.before.movement.pathIndex = 1
  /\ lastCall.planning.targetTileId = lastCall.before.movement.currentTileId

\* the target of the last pass is the one the runtime had, and the path the
\* agent had ends there
PathStillLeadsToTarget ==
  /\ lastCall.before.targetTileId = lastCall.planning.targetTileId
  /\ lastCall.before.movement.path[Len(lastCall.before.movement.path)]
       = lastCall.planning.targetTileId

\* C27: the planner requests a path only if the target differs from the
\* previous one or the agent's path does not end at the target; otherwise the
\* route cache is as it was and the movement component is returned as it
\* was.  In a pass that follows a pass with the same target, for which a path
\* was found, no path is requested and the path index is not reset.
C27_PathRequestedOnlyWhenNeeded ==
  lastCall.tick > 0 =>
    /\ lastCall.planning.requestedPath <=> ~PathStillLeadsToTarget
    /\ ~lastCall.planning.requestedPath
         => /\ routeCache = lastCall.cacheBefore
            /\ lastCall.planning.movement = lastCall.before.movement
    /\ (lastCall.tick > 1
          /\ lastCall.previous.targetTileId = lastCall.planning.targetTileId
          /\ lastCall.previous.npcState # "planning")
         => /\ ~lastCall.planning.requestedPath
            /\ lastCall.planning.movement.path = lastCall.before.movement.path
            /\ lastCall.runtime.movement.pathIndex >= lastCall.before.movement.pathIndex

\* the third pass with the same target: the agent is at the second step of
\* the path requested in the first pass, and the route cache holds that path
C27_Witness ==
  /\ lastCall.tick = 3
  /\ lastCall.previous.targetTileId = lastCall.planning.targetTileId
  /\ lastCall.before.targetTileId = lastCall.planning.targetTileId
  /\ ~lastCall.planning.requestedPath
  /\ ~lastCall.previous.requestedPath
  /\ Len(lastCall.runtime.movement.path) = 4
  /\ lastCall.runtime.movement.pathIndex = 2
  /\ Len(routeCache) = 1

\* the path request of the last pass came back unreachable
PassUnreachable ==
  /\ lastCall.tick > 0
  /\ lastCall.planning.requestedPath
  /\ findPath(lastCall.cacheBefore, maxCachedRoutes,
              [startTileId |-> lastCall.before.movement.currentTileId,
               destinationTileId |-> lastCall.planning.targetTileId,
               blockedTileIds |-> <<>>]).result.status # "found"

\* C28: when the path request comes back unreachable the reported state is
\* planning and the agent holds its position in that tick: the tile it is on
\* and its path index are as before the pass, also part of the way along a
\* path assigned before; the next pass with that target requests the path
\* again.
C28_UnreachableHoldsPosition ==
  /\ PassUnreachable
       => /\ lastCall.runtime.npcState = "planning"
          /\ lastCall.runtime.movement.currentTileId = lastCall.before.movement.currentTileId
          /\ lastCall.runtime.movement.pathIndex = lastCall.before.movement.pathIndex
  /\ (lastCall.tick > 1 /\ lastCall.previous.npcState = "planning"
        /\ lastCall.previous.targetTileId = lastCall.planning.targetTileId)
       => lastCall.planning.requestedPath

\* what holds of an unreachable target: the state is planning, the planner
\* returns the movement component as it was, and the next pass with that
\* target requests the path again
UnreachableReportsPlanning ==
  /\ PassUnreachable
       => /\ lastCall.runtime.npcState = "planning"
          /\ lastCall.planning.movement = lastCall.before.movement
  /\ (lastCall.tick > 1 /\ lastCall.previous.npcState = "planning"
        /\ lastCall.previous.targetTileId = lastCall.planning.targetTileId)
       => lastCall.planning.requestedPath

\* an agent part of the way along a path whose new target is unreachable
\* moves on along that path in the tick of the request
UnreachableAgentMovesOn ==
  /\ PassUnreachable
  /\ lastCall.before.movement.pathIndex = 1
  /\ lastCall.runtime.movement.pathIndex = 2
  /\ lastCall.runtime.movement.currentTileId # lastCall.before.movement.currentTileId

\* what the last pass did to the execution, given the signature of the task
\* of the pass: an execution bound to another signature is not carried on;
\* without an execution of that signature, one is begun at the tick of the
\* pass when the agent stands on its target and the action has a duration;
\* an execution of that signature is carried on with its start tick
ExecutionFollowsSignature(taskSignature, execution, executionAfter, atTarget, hasDuration) ==
  /\ (execution # NoExecution /\ execution.taskSignature # taskSignature)
       => \/ executionAfter = NoExecution
          \/ /\ executionAfter.taskSignature = taskSignature
             /\ executionAfter.startedAtTick = lastCall.tick
  /\ ((execution = NoExecution \/ execution.taskSignature # taskSignature)
        /\ atTarget /\ hasDuration)
       => /\ executionAfter # NoExecution
          /\ executionAfter.taskSignature = taskSignature
          /\ executionAfter.startedAtTick = lastCall.tick
  /\ (execution # NoExecution /\ execution.taskSignature = taskSignature /\ atTarget)
       => /\ executionAfter # NoExecution
          /\ executionAfter.taskSignature = taskSignature
          /\ executionAfter.startedAtTick = execution.startedAtTick
          /\ executionAfter.completesAtTick = execution.completesAtTick

\* C30: when the signature of the agent's task differs from the one its
\* execution is bound to, the execution is discarded, and once the agent
\* stands on its target with an action that has a duration a new execution
\* starts at the current tick; while the signature is the same and the agent
\* stays in place the execution is not started again, not even once it has
\* completed.
C30_SignatureChangeRestartsExecution ==
  lastCall.tick > 0 =>
    ExecutionFollowsSignature(
      createVillagerTaskSignature(lastCall.plannedTask),
      lastCall.before.actionExecution,
      lastCall.runtime.actionExecution,
      lastCall.planning.movement.currentTileId = lastCall.planning.targetTileId,
      ACTION_DURATION_TICKS[lastCall.plannedTask.action] > 0)

\* what holds: the same, with the duration that of the schedule's action,
\* which is the action the execution is begun with
ExecutionFollowsScheduleAction ==
  lastCall.tick > 0 =>
    ExecutionFollowsSignature(
      createVillagerTaskSignature(lastCall.plannedTask),
      lastCall.before.actionExecution,
      lastCall.runtime.actionExecution,
      lastCall.planning.movement.currentTileId = lastCall.planning.targetTileId,
      ACTION_DURATION_TICKS[lastCall.activeTask.action] > 0)

\* an intent gives the task an action with a duration where the schedule's
\* action has none: the agent stands on its target and no execution starts
NoExecutionForIntentAction ==
  /\ lastCall.tick > 0
  /\ lastCall.planning.movement.currentTileId = lastCall.planning.targetTileId
  /\ ACTION_DURATION_TICKS[lastCall.plannedTask.action] > 0
  /\ ACTION_DURATION_TICKS[lastCall.activeTask.action] = 0
  /\ lastCall.runtime.actionExecution = NoExecution

\* an execution is replaced by one of another signature begun at the tick of
\* the pass
ExecutionRestartedOnSignatureChange ==
  /\ lastCall.tick > 1
  /\ lastCall.before.actionExecution # NoExecution
  /\ lastCall.runtime.actionExecution # NoExecution
  /\ lastCall.before.actionExecution.taskSignature
       # lastCall.runtime.actionExecution.taskSignature
  /\ lastCall.runtime.actionExecution.startedAtTick = lastCall.tick

\***************************************************************************
\* The loop over a day (src/unnamed/part_002): the page is loaded and runs
\* with no response arriving up to a tick shortly before a slot of a schedule
\* changes or the day rolls over; from there on the timer fires, the day is
\* reset, and the decision requests that are outstanding or issued are
\* answered in any order, each with a decision or a failure.  A step takes
\* the renders and the runs of the effects that follow it with it.  lastCall
\* holds what the last step was and the runtime before it.
\***************************************************************************

\* how many times the timer fires once responses arrive
MaxLateTicks == 3

\* how many responses arrive
MaxLateResponses == 3

\* two ticks before the first slot of the second villager starts (tick 10),
\* and two ticks before the day rolls over (tick 240)
LateStartTicks == {8, DAY_LENGTH_TICKS - 2}

\* the decisions /api/npc-decision answers with: with and without a target
LateDecisions ==
  { [action |-> "observe", targetTileId |-> "tile_0_1", reasoning |-> "reasoning"],
    [action |-> "shop", targetTileId |-> NoTile, reasoning |-> "reasoning"] }

NoRequest ==
  [villager |-> 0, tick |-> Undefined, promptSignature |-> NoSignature, replanReason |-> ""]

NoDecisionAnswer == [action |-> "", targetTileId |-> NoTile, reasoning |-> ""]

\* a step, the runtime and the tick before it, and the inventory before it
LateStep(kind, before, beforeTick) ==
  [kind |-> kind, outcome |-> "", request |-> NoRequest, decision |-> NoDecisionAnswer,
   before |-> before, beforeTick |-> beforeTick, inventory |-> resourceInventory]

InitLate ==
  /\ InitPage
  /\ routeCache = <<>>
  /\ maxCachedRoutes = NoCapacity
  /\ lastCall = LateStep("load", createInitialVillagerRuntime(listVillagers), 0)
  /\ useOrder = <<>>
  /\ storedSnapshot = NoSnapshot
  /\ resets = 0
  /\ timerTicks = 0
  /\ windowResponses = 0

\* no response has arrived yet
Quiet == lastCall.kind \in {"load", "mount", "quiet"}

\* responses arrive: from one of the start ticks on
Late == ~Quiet \/ tick \in LateStartTicks

\* the replan effect of the render that follows setVillagerRuntime
LateReplanned(replan) ==
  /\ inflightReplans' = replan.inflight
  /\ requests' = replan.requests

\* the tick is set to t: the render runs the tick effect and the replan
\* effect on the runtime it had (first), and the render after the tick
\* effect's setVillagerRuntime runs the completed-action effect (completed)
\* and the replan effect on the new runtime
LateTickSet(t, updated, first, completed) ==
  /\ tick' = t
  /\ completedActionTick' = completed.completedActionTick
  /\ resourceInventory' = completed.resourceInventory
  /\ villagerRuntime' = updated.runtime
  /\ routeCache' = updated.cache
  /\ interactionCooldown' = updated.cooldown
  /\ rendered' = [tick |-> t, villagerRuntime |-> updated.runtime]
  /\ LateReplanned(ReplanEffect(updated.runtime, t, first.inflight, first.requests))

\* the effects of the mount: the tick effect and the replan effect at tick 0
LateMount ==
  /\ lastCall.kind = "load"
  /\ LateTickSet(0,
                 TickUpdater(villagerRuntime, 0, routeCache, maxCachedRoutes, interactionCooldown),
                 ReplanEffect(villagerRuntime, 0, inflightReplans, requests),
                 CompletedActionEffect(
                   TickUpdater(villagerRuntime, 0, routeCache, maxCachedRoutes,
                               interactionCooldown).runtime,
                   completedActionTick, resourceInventory))
  /\ lastCall' = LateStep("mount", villagerRuntime, tick)
  /\ UNCHANGED <<maxCachedRoutes, useOrder, hydrationFinished, latestPersistedTick, hydration,
                 runtimeUpdated, pendingEffects,
                 storedSnapshot, resets, timerTicks, windowResponses, obsVars>>

\* the timer fires while no response has arrived
QuietTimerTick ==
  /\ Quiet
  /\ tick < DAY_LENGTH_TICKS - 2
  /\ LateTickSet(tick + 1,
                 TickUpdater(villagerRuntime, tick + 1, routeCache, maxCachedRoutes,
                             interactionCooldown),
                 ReplanEffect(villagerRuntime, tick + 1, inflightReplans, requests),
                 CompletedActionEffect(
                   TickUpdater(villagerRuntime, tick + 1, routeCache, maxCachedRoutes,
                               interactionCooldown).runtime,
                   completedActionTick, resourceInventory))
  /\ lastCall' = LateStep("quiet", villagerRuntime, tick)
  /\ UNCHANGED <<maxCachedRoutes, useOrder, hydrationFinished, latestPersistedTick, hydration,
                 runtimeUpdated, pendingEffects,
                 storedSnapshot, resets, timerTicks, windowResponses, obsVars>>

LateTimerTick ==
  /\ Late
  /\ timerTicks < MaxLateTicks
  /\ timerTicks' = timerTicks + 1
  /\ LateTickSet(tick + 1,
                 TickUpdater(villagerRuntime, tick + 1, routeCache, maxCachedRoutes,
                             interactionCooldown),
                 ReplanEffect(villagerRuntime, tick + 1, inflightReplans, requests),
                 CompletedActionEffect(
                   TickUpdater(villagerRuntime, tick + 1, routeCache, maxCachedRoutes,
                               interactionCooldown).runtime,
                   completedActionTick, resourceInventory))
  /\ lastCall' = LateStep("tick", villagerRuntime, tick)
  /\ UNCHANGED <<maxCachedRoutes, useOrder, hydrationFinished, latestPersistedTick, hydration,
                 runtimeUpdated, pendingEffects,
                 storedSnapshot, resets, windowResponses, obsVars>>

\* the reset control, when the tick is not 0: setTick(0) changes the tick
LateResetDay ==
  /\ Late
  /\ tick # 0
  /\ resets < MaxResets
  /\ resets' = resets + 1
  /\ LateTickSet(0,
                 TickUpdater(villagerRuntime, 0, routeCache, maxCachedRoutes, interactionCooldown),
                 ReplanEffect(villagerRuntime, 0, inflightReplans, requests),
                 CompletedActionEffect(
                   TickUpdater(villagerRuntime, 0, routeCache, maxCachedRoutes,
                               interactionCooldown).runtime,
                   [i \in VillagerIndexes |-> Undefined], createInitialResourceInventory))
  /\ lastCall' = LateStep("resetDay", villagerRuntime, tick)
  /\ UNCHANGED <<maxCachedRoutes, useOrder, hydrationFinished, latestPersistedTick, hydration,
                 runtimeUpdated, pendingEffects,
                 storedSnapshot, timerTicks, windowResponses, obsVars>>

\* the handlers of request k have set the runtime to updated
LateCompleted(k, updated) ==
  /\ villagerRuntime' = updated
  /\ rendered' = [tick |-> tick, villagerRuntime |-> updated]
  /\ LateReplanned(ReplanEffect(updated, tick,
                                ClearInflight(inflightReplans,
                                              VILLAGER_REGISTRY[requests[k].villager].id),
                                RemoveAt(requests, k)))

\* request k resolves, with a decision (then) or a failure (catch)
LateComplete(k, outcome, decision) ==
  /\ Late
  /\ windowResponses < MaxLateResponses
  /\ windowResponses' = windowResponses + 1
  /\ k \in DOMAIN requests
  /\ LateCompleted(k, [villagerRuntime EXCEPT
                         ![requests[k].villager] =
                            IF outcome = "success" THEN SucceededReplan(@, requests[k], decision)
                            ELSE FailedReplan(@, requests[k])])
  /\ lastCall' = [kind |-> "complete", outcome |-> outcome, request |-> requests[k],
                  decision |-> IF outcome = "success" THEN decision ELSE NoDecisionAnswer,
                  before |-> villagerRuntime, beforeTick |-> tick,
                  inventory |-> resourceInventory]
  /\ UNCHANGED <<routeCache, maxCachedRoutes, useOrder, tick, resourceInventory,
                 interactionCooldown, completedActionTick, hydrationFinished, latestPersistedTick,
                 hydration, runtimeUpdated, pendingEffects, storedSnapshot, resets, timerTicks,
                 obsVars>>

NextLate ==
  \/ LateMount
  \/ QuietTimerTick
  \/ LateTimerTick
  \/ LateResetDay
  \/ \E k \in DOMAIN requests, outcome \in {"success", "failure"}, decision \in LateDecisions :
       LateComplete(k, outcome, decision)

SpecLate == InitLate /\ [][NextLate]_vars

\* the task of the schedule of villager i at tick t
ScheduledTask(i, t) ==
  resolveActiveVillagerTask(scheduleIndex[i], toSimulationTime(t, DAY_LENGTH_TICKS))

\* the task the planner is given for villager i in the pass of tick t when
\* the villager's intent is intent
IntentTask(i, t, intent) ==
  [ScheduledTask(i, t) EXCEPT
     !.action = intent.action,
     !.targetTileId = IF intent.targetTileId # NoTile THEN intent.targetTileId ELSE @]

\* the steps in which the tick effect ran
TickSteps == {"mount", "quiet", "tick", "resetDay"}

\* C31: a successful response is applied when it arrives, whatever the tick
\* is by then and whatever the schedule's task is by then: the intent of the
\* request's agent is the decision, plannedAtTick, intentUpdatedAtTick and
\* lastPlanTick are the tick the request was issued at, lastPlanSignature is
\* the signature computed when it was issued, and nothing else of that agent
\* and nothing of the other agents is changed, in whatever order the
\* responses arrive.
C31_ResponseAppliedWheneverItArrives ==
  (lastCall.kind = "complete" /\ lastCall.outcome = "success") =>
    villagerRuntime =
         [lastCall.before EXCEPT
            ![lastCall.request.villager].replan.intent =
               [action |-> lastCall.decision.action,
                targetTileId |-> lastCall.decision.targetTileId,
                reasoning |-> lastCall.decision.reasoning,
                plannedAtTick |-> lastCall.request.tick],
            ![lastCall.request.villager].replan.intentUpdatedAtTick = lastCall.request.tick,
            ![lastCall.request.villager].replan.lastPlanTick = lastCall.request.tick,
            ![lastCall.request.villager].replan.lastPlanSignature =
               lastCall.request.promptSignature]

\* a response arrives two ticks after its request was issued, when the
\* schedule's task of its agent is another one, and after the response to a
\* request of the other agent that was issued later
C31_Witness ==
  /\ lastCall.kind = "complete"
  /\ lastCall.outcome = "success"
  /\ tick >= lastCall.request.tick + 2
  /\ ScheduledTask(lastCall.request.villager, tick)
       # ScheduledTask(lastCall.request.villager, lastCall.request.tick)
  /\ \E j \in VillagerIndexes :
       /\ j # lastCall.request.villager
       /\ villagerRuntime[j].replan.lastPlanTick # Undefined
       /\ villagerRuntime[j].replan.lastPlanTick > lastCall.request.tick
  /\ villagerRuntime[lastCall.request.villager].replan.intent.plannedAtTick
       = lastCall.request.tick

\* C32: an intent, once persisted, stays as it is through every pass of the
\* tick effect (a slot change and a day rollover included), every day reset
\* and every failed request; and in every pass the planner is given the task
\* with the intent's action, and the intent's target if it has one, else the
\* schedule's target: the target tile of the agent after the pass is the one
\* resolved for that task, and an execution it has after the pass is signed
\* for that task.
C32_IntentOverridesUntilReplaced ==
  /\ (lastCall.kind \in TickSteps \/ (lastCall.kind = "complete" /\ lastCall.outcome = "failure")) =>
       \A i \in VillagerIndexes :
         villagerRuntime[i].replan.intent = lastCall.before[i].replan.intent
  /\ lastCall.kind \in TickSteps =>
       \A i \in VillagerIndexes :
         lastCall.before[i].replan.intent # NoIntent =>
           /\ villagerRuntime[i].targetTileId =
                resolveTaskTargetTile(VILLAGER_REGISTRY[i],
                                      IntentTask(i, tick, lastCall.before[i].replan.intent),
                                      lastCall.before[i].movement.currentTileId)
           /\ villagerRuntime[i].actionExecution # NoExecution =>
                villagerRuntime[i].actionExecution.taskSignature =
                  createVillagerTaskSignature(
                    IntentTask(i, tick, lastCall.before[i].replan.intent))

\* the pass of the first tick of the second day, in which a slot of the
\* schedule starts, for an agent whose intent names another action than the
\* slot and whose latest request, issued after the intent, failed
C32_Witness ==
  /\ lastCall.kind = "tick"
  /\ tick = DAY_LENGTH_TICKS
  /\ \E i \in VillagerIndexes :
       /\ lastCall.before[i].replan.intent # NoIntent
       /\ ScheduledTask(i, tick) # ScheduledTask(i, tick - 1)
       /\ lastCall.before[i].replan.intent.action # ScheduledTask(i, tick).action
       /\ lastCall.before[i].replan.lastPlanTick > lastCall.before[i].replan.intentUpdatedAtTick
       /\ villagerRuntime[i].targetTileId = lastCall.before[i].replan.intent.targetTileId

\* C37: the execution record of an agent is for the task whose signature it
\* carries: its action is that task's action, its duration that action's,
\* and the state of an agent with a running execution is resting for rest
\* and acting for every other action of that task.
C37_ExecutionIsForItsTask ==
  \A i \in VillagerIndexes :
    LET execution == villagerRuntime[i].actionExecution
    IN execution # NoExecution =>
         /\ execution.action = execution.taskSignature[1]
         /\ execution.completesAtTick - execution.startedAtTick
              = ACTION_DURATION_TICKS[execution.taskSignature[1]]
         /\ execution.completedAtTick = Undefined =>
              villagerRuntime[i].npcState
                = IF execution.taskSignature[1] = "rest" THEN "resting" ELSE "acting"

\* under an intent the execution is begun with the schedule's action and
\* signed for the task with the intent's action
ExecutionOfScheduleActionUnderIntent ==
  /\ lastCall.kind = "tick"
  /\ \E i \in VillagerIndexes :
       /\ villagerRuntime[i].replan.intent # NoIntent
       /\ villagerRuntime[i].actionExecution # NoExecution
       /\ villagerRuntime[i].actionExecution.action = ScheduledTask(i, tick).action
       /\ villagerRuntime[i].actionExecution.taskSignature[1]
            = villagerRuntime[i].replan.intent.action
       /\ villagerRuntime[i].replan.intent.action # ScheduledTask(i, tick).action

\* the execution of villager i was completed by the last step
CompletedByStep(i) ==
  /\ villagerRuntime[i].actionExecution # NoExecution
  /\ villagerRuntime[i].actionExecution.completedAtTick # Undefined
  /\ villagerRuntime[i].actionExecution # lastCall.before[i].actionExecution

\* the actions of the executions the last step completed, by villager
ActionsCompletedByStep ==
  LET completed == SelectSeq([i \in VillagerIndexes |-> i], CompletedByStep)
  IN [k \in DOMAIN completed |-> villagerRuntime[completed[k]].actionExecution.action]

\* C38: an execution completes once: the completion tick of a record that
\* is kept never changes, and the inventory changes by the resource effects
\* of the executions a step completes and by nothing else for as long as the
\* records are kept (a day reset starts from the initial inventory).
C38_CompletionPaidOnce ==
  /\ lastCall.kind \in TickSteps =>
       /\ \A i \in VillagerIndexes :
            (/\ lastCall.before[i].actionExecution # NoExecution
             /\ lastCall.before[i].actionExecution.completedAtTick # Undefined
             /\ villagerRuntime[i].actionExecution # NoExecution
             /\ villagerRuntime[i].actionExecution.taskSignature
                  = lastCall.before[i].actionExecution.taskSignature)
              => villagerRuntime[i].actionExecution = lastCall.before[i].actionExecution
       /\ resourceInventory =
            applyActionResourceEffects(IF lastCall.kind = "resetDay"
                                       THEN createInitialResourceInventory
                                       ELSE lastCall.inventory,
                                       ActionsCompletedByStep)
  /\ lastCall.kind = "complete" => resourceInventory = lastCall.inventory

\* what holds: the same as long as the day has not been reset
CompletionPaidOnceBeforeReset ==
  resets = 0 => C38_CompletionPaidOnce

\* a tick completes an execution and its resource effects are applied
CompletionPaid ==
  /\ lastCall.kind \in TickSteps
  /\ resets = 0
  /\ \E i \in VillagerIndexes : CompletedByStep(i)
  /\ resourceInventory # lastCall.inventory

\* the day is reset while an agent keeps a completed execution: its resource
\* effects are applied to the initial inventory
CompletionPaidAgainAfterReset ==
  /\ lastCall.kind = "resetDay"
  /\ \A i \in VillagerIndexes : ~CompletedByStep(i)
  /\ resourceInventory # createInitialResourceInventory

\* a day reset leaves the intent of an agent in place
IntentOutlivesReset ==
  /\ lastCall.kind = "resetDay"
  /\ \E i \in VillagerIndexes : villagerRuntime[i].replan.intent # NoIntent

\***************************************************************************
\* The loop over days (src/unnamed/part_002): the page is loaded, a response
\* to one of the first requests arrives or none does, and the timer fires
\* for more than short-term max age ticks.
\***************************************************************************

\* how many times the timer fires
MaxDaysTick == 1442

\* how many responses arrive, all before the timer fires first
MaxDaysResponses == 1

InitDays == InitLate

\* the effects of the mount
DaysMount ==
  /\ lastCall.kind = "load"
  /\ LateTickSet(0,
                 TickUpdater(villagerRuntime, 0, routeCache, maxCachedRoutes, interactionCooldown),
                 ReplanEffect(villagerRuntime, 0, inflightReplans, requests),
                 CompletedActionEffect(
                   TickUpdater(villagerRuntime, 0, routeCache, maxCachedRoutes,
                               interactionCooldown).runtime,
                   completedActionTick, resourceInventory))
  /\ lastCall' = LateStep("mount", villagerRuntime, tick)
  /\ UNCHANGED <<maxCachedRoutes, useOrder, hydrationFinished, latestPersistedTick, hydration,
                 runtimeUpdated, pendingEffects, storedSnapshot, resets, timerTicks,
                 windowResponses, obsVars>>

DaysTimerTick ==
  /\ lastCall.kind # "load"
  /\ tick < MaxDaysTick
  /\ LateTickSet(tick + 1,
                 TickUpdater(villagerRuntime, tick + 1, routeCache, maxCachedRoutes,
                             interactionCooldown),
                 ReplanEffect(villagerRuntime, tick + 1, inflightReplans, requests),
                 CompletedActionEffect(
                   TickUpdater(villagerRuntime, tick + 1, routeCache, maxCachedRoutes,
                               interactionCooldown).runtime,
                   completedActionTick, resourceInventory))
  /\ lastCall' = LateStep("tick", villagerRuntime, tick)
  /\ UNCHANGED <<maxCachedRoutes, useOrder, hydrationFinished, latestPersistedTick, hydration,
                 runtimeUpdated, pendingEffects, storedSnapshot, resets, timerTicks,
                 windowResponses, obsVars>>

DaysComplete(k, outcome, decision) ==
  /\ lastCall.kind # "load"
  /\ tick = 0
  /\ windowResponses < MaxDaysResponses
  /\ windowResponses' = windowResponses + 1
  /\ k \in DOMAIN requests
  /\ LateCompleted(k, [villagerRuntime EXCEPT
                         ![requests[k].villager] =
                            IF outcome = "success" THEN SucceededReplan(@, requests[k], decision)
                            ELSE FailedReplan(@, requests[k])])
  /\ lastCall' = [kind |-> "complete", outcome |-> outcome, request |-> requests[k],
                  decision |-> IF outcome = "success" THEN decision ELSE NoDecisionAnswer,
                  before |-> villagerRuntime, beforeTick |-> tick,
                  inventory |-> resourceInventory]
  /\ UNCHANGED <<routeCache, maxCachedRoutes, useOrder, tick, resourceInventory,
                 interactionCooldown, completedActionTick, hydrationFinished, latestPersistedTick,
                 hydration, runtimeUpdated, pendingEffects, storedSnapshot, resets, timerTicks,
                 obsVars>>

NextDays ==
  \/ DaysMount
  \/ DaysTimerTick
  \/ \E k \in DOMAIN requests, outcome \in {"success", "failure"}, decision \in LateDecisions :
       DaysComplete(k, outcome, decision)

SpecDays == InitDays /\ [][NextDays]_vars

\* the positions of the short-term bucket of villager i whose memory the
\* bucket did not hold before the last step
AppendedMemories(i) ==
  {p \in DOMAIN villagerRuntime[i].memoryStore.shortTerm :
     \A q \in DOMAIN lastCall.before[i].memoryStore.shortTerm :
       lastCall.before[i].memoryStore.shortTerm[q] # villagerRuntime[i].memoryStore.shortTerm[p]}

\* C34: the short-term bucket of every agent holds 40 memories at most; a
\* step appends its memories after those the bucket held and, when that
\* makes more than 40, drops the oldest ones from the front: what is kept are
\* the most recent 40, in the order they had.  The memory of an interaction
\* of this tick is the last one of the bucket.
C34_ShortTermKeepsMostRecent ==
  \A i \in VillagerIndexes :
    LET before == lastCall.before[i].memoryStore.shortTerm
        after == villagerRuntime[i].memoryStore.shortTerm
        appended == Cardinality(AppendedMemories(i))
        dropped == Max(0, Len(before) + appended
                            - DEFAULT_MEMORY_PRUNING_POLICY.shortTermMaxEntries)
    IN /\ Len(after) <= DEFAULT_MEMORY_PRUNING_POLICY.shortTermMaxEntries
       /\ Len(after) = Len(before) + appended - dropped
       /\ \A p \in DOMAIN after :
            IF p <= Len(before) - dropped
            THEN after[p] = before[p + dropped]
            ELSE p \in AppendedMemories(i) /\ after[p].createdAt.tick = tick
       /\ (\E pair \in VillagerPairKeys :
             VILLAGER_REGISTRY[i].id \in pair /\ interactionCooldown[pair] = tick) =>
            /\ Len(after) > 0
            /\ after[Len(after)].createdAt.tick = tick

\* a tick in which a memory is appended to a bucket of 40 and the oldest
\* one is dropped
C34_Witness ==
  /\ lastCall.kind = "tick"
  /\ \E i \in VillagerIndexes :
       /\ Len(lastCall.before[i].memoryStore.shortTerm)
            = DEFAULT_MEMORY_PRUNING_POLICY.shortTermMaxEntries
       /\ AppendedMemories(i) # {}
       /\ villagerRuntime[i].memoryStore.shortTerm[1]
            = lastCall.before[i].memoryStore.shortTerm[2]

\* C35: short-term memories expire by age: no short-term bucket holds a
\* memory whose age in ticks exceeds the short-term max age.
C35_ShortTermExpiresByAge ==
  \A i \in VillagerIndexes :
    \A p \in DOMAIN villagerRuntime[i].memoryStore.shortTerm :
      tick - villagerRuntime[i].memoryStore.shortTerm[p].createdAt.tick
        <= DEFAULT_MEMORY_PRUNING_POLICY.shortTermMaxAgeTicks

\* a memory in a short-term bucket longer than its own expiry
MemoryOutlivesItsExpiry ==
  \E i \in VillagerIndexes :
    \E p \in DOMAIN villagerRuntime[i].memoryStore.shortTerm :
      tick - villagerRuntime[i].memoryStore.shortTerm[p].createdAt.tick
        > villagerRuntime[i].memoryStore.shortTerm[p].expiresAfterTicks

\***************************************************************************
\* shouldRequestNpcReplan on its own: one call on any input of the bounded
\* sets
\***************************************************************************

\* the largest tick and the largest interval of the inputs
MaxInputTick == 3
MaxIntervalTicks == 2

InputTicks == 0..MaxInputTick

\* the prompt signatures of the inputs: those of the villagers at load
InputSignatures ==
  {PromptSignatureOf(createInitialVillagerRuntime(listVillagers)[i], i, 0) : i \in VillagerIndexes}

ReplanInputs ==
  [tick : InputTicks,
   intervalTicks : 0..MaxIntervalTicks,
   promptSignature : InputSignatures,
   lastPlanTick : {Undefined} \cup InputTicks,
   lastPlanSignature : {NoSignature} \cup InputSignatures,
   lastMajorEventTick : {Undefined} \cup InputTicks]

InitReplanDue ==
  /\ InitPage
  /\ routeCache = <<>>
  /\ maxCachedRoutes = NoCapacity
  /\ lastCall \in [input : ReplanInputs, called : {FALSE}, result : {""}]
  /\ useOrder = <<>>
  /\ storedSnapshot = NoSnapshot
  /\ resets = 0
  /\ timerTicks = 0
  /\ windowResponses = 0

\* shouldRequestNpcReplan(input)
ShouldRequestCall ==
  /\ ~lastCall.called
  /\ lastCall' =
       [lastCall EXCEPT
          !.called = TRUE,
          !.result = shouldRequestNpcReplan(lastCall.input.tick, lastCall.input.intervalTicks,
                                            lastCall.input.promptSignature,
                                            lastCall.input.lastPlanTick,
                                            lastCall.input.lastPlanSignature,
                                            lastCall.input.lastMajorEventTick)]
  /\ UNCHANGED <<routeCache, maxCachedRoutes, useOrder, pageVars, storedSnapshot, resets,
                 timerTicks, windowResponses, obsVars>>

NextReplanDue == ShouldRequestCall

SpecReplanDue == InitReplanDue /\ [][NextReplanDue]_vars

\* C7: shouldRequestNpcReplan reports due exactly when the cadence condition
\* (no last plan tick, or the interval elapsed since it) or the major-event
\* condition (a major event tick, and no last plan tick or an older one)
\* holds and the prompt signature differs from the last plan signature; the
\* reason is major_event when the major-event condition holds, else cadence.
C7_ReplanDueCharacterised ==
  lastCall.called =>
    LET input == lastCall.input
        cadence == input.lastPlanTick = Undefined
                     \/ input.tick - input.lastPlanTick >= input.intervalTicks
        major == /\ input.lastMajorEventTick # Undefined
                 /\ (input.lastPlanTick = Undefined
                       \/ input.lastMajorEventTick > input.lastPlanTick)
        due == (cadence \/ major) /\ input.promptSignature # input.lastPlanSignature
    IN /\ (lastCall.result # "") <=> due
       /\ due => lastCall.result = IF major THEN "major_event" ELSE "cadence"

\* a call with the interval elapsed and a newer major event, suppressed by
\* an unchanged signature
C7_Witness ==
  /\ lastCall.called
  /\ lastCall.input.lastPlanTick # Undefined
  /\ lastCall.input.tick - lastCall.input.lastPlanTick >= lastCall.input.intervalTicks
  /\ lastCall.input.lastMajorEventTick # Undefined
  /\ lastCall.input.lastMajorEventTick > lastCall.input.lastPlanTick
  /\ lastCall.input.promptSignature = lastCall.input.lastPlanSignature
  /\ lastCall.result = ""

\***************************************************************************
\* Properties of the GamePage loop (specification Spec)
\***************************************************************************

OutstandingVillagerIds == {VILLAGER_REGISTRY[requests[k].villager].id : k \in DOMAIN requests}

\* C1: no agent has two decision requests outstanding, and the in-flight set
\* is exactly the set of the agents that have an unresolved request.
C1_OneOutstandingPerAgent ==
  /\ \A j, k \in DOMAIN requests : j # k => requests[j].villager # requests[k].villager
  /\ inflightReplans = OutstandingVillagerIds

\* a request has just completed while the request of another agent is
\* still outstanding
C1_Witness ==
  /\ lastStep.kind = "complete"
  /\ Len(requests) = 1
  /\ inflightReplans = OutstandingVillagerIds
  /\ VILLAGER_REGISTRY[lastStep.villager].id \notin inflightReplans

\* C2: the replan requests initiated since the tick last changed, over all
\* the evaluations of the scheduler in that tick, number at most
\* NPC_MAX_REPLANS_PER_TICK.
C2_InitiatedPerTickWithinCap ==
  initiatedThisTick <= NPC_MAX_REPLANS_PER_TICK

\* C3: the evaluation of an agent that follows the completion of its request
\* (any outcome) and computes the signature the request was issued with
\* reports not due.
C3_DedupeAfterCompletion ==
  [][ lastStep'.kind = "effects" =>
        \A i \in VillagerIndexes :
          (/\ lastCompletion[i] # NoCompletion
           /\ lastStep'.evaluations[i].evaluated
           /\ lastStep'.evaluations[i].promptSignature = lastCompletion[i].promptSignature)
            => lastStep'.evaluations[i].replanReason = "" ]_vars

\* C4: the evaluation of an agent that immediately follows the completion of
\* its request (any outcome, however late) initiates no request on cadence
\* grounds.
C4_NoCadenceRequestAfterCompletion ==
  [][ lastStep'.kind = "effects" =>
        \A i \in VillagerIndexes :
          (lastCompletion[i] # NoCompletion /\ lastStep'.evaluations[i].evaluated)
            => lastStep'.evaluations[i].replanReason # "cadence" ]_vars

\* C5 as stated: the decision requests outstanding at the same time number
\* at most NPC_MAX_REPLANS_PER_TICK.
C5_OutstandingWithinPerTickCap ==
  Len(requests) <= NPC_MAX_REPLANS_PER_TICK

\* C5 amended: one evaluation of the scheduler initiates at most
\* NPC_MAX_REPLANS_PER_TICK requests, and the requests outstanding at the
\* same time number at most one per agent, however late the responses are.
C5_OutstandingWithinAgentCount ==
  [][ /\ Len(requests') - Len(requests) <= NPC_MAX_REPLANS_PER_TICK
      /\ Len(requests') <= Cardinality(VillagerIds) ]_vars

\* every agent has a request outstanding, one of them issued at an earlier
\* tick
C5_Witness ==
  /\ Len(requests) = Cardinality(VillagerIds)
  /\ Len(requests) > NPC_MAX_REPLANS_PER_TICK
  /\ \E k \in DOMAIN requests : requests[k].tick < tick

\* C6: a failed request changes nothing of the loop: the tick, the effects
\* that are pending and every agent's movement, target, state and action
\* execution stay as they are and the page goes on to render; and every run
\* of the tick effect processes every agent, whatever requests are
\* outstanding.
C6_FailureNeverInterruptsLoop ==
  [][ /\ (lastStep'.kind = "complete" /\ lastStep'.outcome = "failure")
         => /\ tick' = tick
            /\ timerTicks' = timerTicks
            /\ pendingEffects' = pendingEffects
            /\ pendingEffects' # NoEffects \/ runtimeUpdated'
            /\ \A i \in VillagerIndexes :
                 /\ villagerRuntime'[i].movement = villagerRuntime[i].movement
                 /\ villagerRuntime'[i].targetTileId = villagerRuntime[i].targetTileId
                 /\ villagerRuntime'[i].npcState = villagerRuntime[i].npcState
                 /\ villagerRuntime'[i].actionExecution = villagerRuntime[i].actionExecution
      /\ (lastStep'.kind = "effects" /\ (pendingEffects.mount \/ pendingEffects.tick))
         => \A i \in VillagerIndexes :
              villagerRuntime'[i].movement.lastProcessedTick >= rendered.tick ]_vars

\* the tick effect of a later tick has processed every agent after a
\* request failed, with a request still outstanding
C6_Witness ==
  /\ lastStep.kind = "effects"
  /\ tick >= 1
  /\ requests # <<>>
  /\ \E i \in VillagerIndexes : lastCompletion[i].outcome = "failure"
  /\ \A i \in VillagerIndexes : villagerRuntime[i].movement.lastProcessedTick >= tick

\* C17: no execution record exists for an action of zero duration (walk,
\* observe): every execution record of a villager of the tick loop has an
\* action of positive duration and completesAtTick = startedAtTick + that
\* duration.
C17_NoExecutionOfZeroDuration ==
  \A i \in VillagerIndexes :
    LET execution == villagerRuntime[i].actionExecution
    IN execution # NoExecution
         => /\ execution.action \in VILLAGER_ACTIONS
            /\ ACTION_DURATION_TICKS[execution.action] > 0
            /\ execution.completesAtTick
                 = execution.startedAtTick + ACTION_DURATION_TICKS[execution.action]

\* one villager acts on a task of positive duration and has a record, the
\* other stands acting on a task of zero duration and has none
C17_Witness ==
  \E i, j \in VillagerIndexes :
    /\ villagerRuntime[i].actionExecution # NoExecution
    /\ villagerRuntime[j].actionExecution = NoExecution
    /\ villagerRuntime[j].npcState = "acting"
    /\ lastStep.kind = "effects"

\***************************************************************************
\* Snapshots of the GamePage loop (specification Spec)
\***************************************************************************

\* what the version property is changed to: other numbers, the digit as a
\* string, null, and no property at all
AlteredVersions ==
  {JNumber(0), JNumber(WORLD_SNAPSHOT_VERSION + 1), JNumber(-1), JThousandths(1500),
   JString("1"), JNull, JUndefined}

\* the snapshot the persist effect creates of the rendered tick and runtime
RenderedSnapshot ==
  createWorldSnapshot(rendered.tick,
                      toSimulationTime(rendered.tick, DAY_LENGTH_TICKS).day,
                      toSimulationTime(rendered.tick, DAY_LENGTH_TICKS).minuteOfDay,
                      rendered.villagerRuntime)

\* C39: the stored snapshot and the tick last persisted change only in a run
\* of the effects that finds the hydration finished, hence the snapshot read
\* resolved, at a rendered tick that is divisible by the persist interval
\* and is not the tick last persisted, which it then becomes: nothing is
\* persisted before the stored snapshot has been read, and nothing twice
\* while the tick stays the same.
C39_PersistOnlyAfterHydration ==
  [][ (storedSnapshot' # storedSnapshot \/ latestPersistedTick' # latestPersistedTick)
        => /\ hydrationFinished
           /\ hydration = "done"
           /\ lastStep'.kind = "effects"
           /\ rendered.tick % SNAPSHOT_PERSIST_INTERVAL_TICKS = 0
           /\ latestPersistedTick # rendered.tick
           /\ latestPersistedTick' = rendered.tick
           /\ storedSnapshot' # storedSnapshot => storedSnapshot' = RenderedSnapshot ]_vars

\* the hydration has finished and the persist effect has written a snapshot
\* of the loop at the rendered tick
C39_Witness ==
  /\ hydrationFinished
  /\ lastStep.kind = "effects"
  /\ lastStep.evaluations # NoEvaluations
  /\ latestPersistedTick = rendered.tick
  /\ storedSnapshot # NoSnapshot
  /\ storedSnapshot # EarlierSnapshot

\* C22: the snapshot createWorldSnapshot makes of any rendered state of the
\* loop, serialized and decoded with parseWorldSnapshot, comes back as a
\* snapshot equal to the original; with its version changed to any other
\* value parseWorldSnapshot returns no snapshot.  The rendered state is that
\* of the page load until the first render and changes at a render only, so
\* the states that follow the load or a render show every rendered state.
RenderedSnapshotRoundTrips ==
  LET snapshot == RenderedSnapshot
      serialized == JSnapshot(snapshot)
      parsed == parseWorldSnapshot(serialized)
  IN /\ parsed = serialized
     /\ SnapshotOf(parsed) = snapshot
     /\ \A version \in AlteredVersions :
          parseWorldSnapshot(WithProperty(serialized, "version", version)) = JUndefined

C22_SnapshotRoundTrip ==
  lastStep.kind \in {"load", "render"} => RenderedSnapshotRoundTrips

\* a rendered state in which an agent holds a memory and an intent
C22_Witness ==
  /\ lastStep.kind = "render"
  /\ \E i \in VillagerIndexes :
       /\ rendered.villagerRuntime[i].memoryStore.shortTerm # <<>>
       /\ rendered.villagerRuntime[i].replan.intent # NoIntent
       /\ rendered.villagerRuntime[i].replan.lastPlanSignature # NoSignature
  /\ parseWorldSnapshot(JSnapshot(RenderedSnapshot)) # JUndefined

====
